---- MODULE Spec2Model ----
(***************************************************************************)
(* Model of the decision/allocation layer of the hospital scheduler:       *)
(* RiskAssessor, SlotOptimizer, WaitlistManager and the orchestrating       *)
(* AIAppointmentScheduler.                                                  *)
(*                                                                          *)
(* Units.  A datetime is a number of minutes since Monday 00:00 of week 0;  *)
(* a probability is a number of hundredths (0.3 is 30); a slot score is     *)
(* kept as twenty times its value so that the 0.05, 0.1 and 0.5 weights of  *)
(* the source stay integers.                                                *)
(***************************************************************************)
EXTENDS Integers, Sequences, FiniteSets, TLC

VARIABLES
  doctor_slots,      \* SlotOptimizer.doctor_slots: doctor -> sequence of slots
  doctor_order,      \* key order of the doctor_slots dict (insertion order)
  slot_assignments,  \* SlotOptimizer.slot_assignments: patient -> slot (or None)
  waitlist,          \* WaitlistManager.waitlist: the heap array of entries
  patient_records,   \* key set of WaitlistManager.patient_records
  contact_schedule,  \* WaitlistManager.contact_schedule: patient -> time (or None)
  thresholds,        \* the scheduler's RiskAssessor thresholds
  config,            \* AIAppointmentScheduler.config
  now,               \* datetime.now()
  last,              \* the last call made: its name, arguments and result
  calls              \* the calls in progress, when callers interleave: their frames

vars == <<doctor_slots, doctor_order, slot_assignments, waitlist,
          patient_records, contact_schedule, thresholds, config, now, last, calls>>

-----------------------------------------------------------------------------
(* Bounds of the model *)

MaxBooked == 4       \* occupants over all slots, beyond which no caller books

Doctors == {"D1", "D2"}
Patients == {"p1", "p2"}
WaitlistPatients == Patients \cup {"p3"}
None == "none"          \* an absent doctor, time band or patient
NoSlot == <<>>          \* an absent slot
NoTime == 0 - 1         \* an absent datetime

Max(a, b) == IF a >= b THEN a ELSE b
Min(a, b) == IF a <= b THEN a ELSE b
Abs(a) == IF a >= 0 THEN a ELSE -a

-----------------------------------------------------------------------------
(* datetime *)

MinutesPerDay == 24 * 60
DateOf(t) == t \div MinutesPerDay            \* datetime.date(), as a day number
HourOf(t) == (t % MinutesPerDay) \div 60     \* datetime.hour
Weekday(t) == DateOf(t) % 7                  \* datetime.weekday(), Monday = 0
AtHour(t, h) == DateOf(t) * MinutesPerDay + h * 60   \* replace(hour=h, minute=0, ...)
At(day, h, m) == day * MinutesPerDay + h * 60 + m

-----------------------------------------------------------------------------
(* DoctorSlot *)

DoctorSlot(d, s, e, cap) ==
  [doctor_id |-> d, start_time |-> s, end_time |-> e, max_capacity |-> cap,
   current_capacity |-> 0, patients |-> <<>>, buffer_time |-> 0]

is_available(slot) == slot.current_capacity < slot.max_capacity

get_available_capacity(slot) == slot.max_capacity - slot.current_capacity

\* add_patient with the buffer overwritten rather than maximised
add_patient_set_buffer(slot, p, b) ==
  IF slot.current_capacity < slot.max_capacity
  THEN [ret |-> TRUE,
        slot |-> [slot EXCEPT !.patients = Append(@, p),
                              !.current_capacity = @ + 1,
                              !.buffer_time = b]]
  ELSE [ret |-> FALSE, slot |-> slot]

add_patient(slot, p, b) ==
  IF slot.current_capacity < slot.max_capacity
  THEN [ret |-> TRUE,
        slot |-> [slot EXCEPT !.patients = Append(@, p),
                              !.current_capacity = @ + 1,
                              !.buffer_time = Max(@, b)]]
  ELSE [ret |-> FALSE, slot |-> slot]

InSeq(x, s) == \E i \in 1..Len(s) : s[i] = x

FirstIndex(x, s) == CHOOSE i \in 1..Len(s) : s[i] = x /\ \A j \in 1..(i-1) : s[j] # x

\* list.remove(x): drops the first occurrence
ListRemove(s, x) ==
  LET k == FirstIndex(x, s)
  IN  [i \in 1..(Len(s) - 1) |-> IF i < k THEN s[i] ELSE s[i + 1]]

\* a faulty variant of remove_patient: drops every occurrence, decrements once
remove_patient_all(slot, p) ==
  IF InSeq(p, slot.patients)
  THEN [ret |-> TRUE,
        slot |-> [slot EXCEPT !.patients = SelectSeq(@, LAMBDA x : x # p),
                              !.current_capacity = @ - 1]]
  ELSE [ret |-> FALSE, slot |-> slot]

remove_patient(slot, p) ==
  IF InSeq(p, slot.patients)
  THEN [ret |-> TRUE,
        slot |-> [slot EXCEPT !.patients = ListRemove(@, p),
                              !.current_capacity = @ - 1]]
  ELSE [ret |-> FALSE, slot |-> slot]

-----------------------------------------------------------------------------
(* SlotOptimizer: state helpers.  A slot object is named by its doctor and  *)
(* its index in that doctor's list; slots are never removed or reordered.   *)

Ref(d, i) == <<d, i>>
SlotAt(ds, r) == ds[r[1]][r[2]]
SetSlot(ds, r, slot) == [ds EXCEPT ![r[1]][r[2]] = slot]
Registered(order) == {order[i] : i \in 1..Len(order)}
AllRefs(ds) == UNION {{Ref(d, i) : i \in 1..Len(ds[d])} : d \in Doctors}
Occupancy(ds) ==
  LET refs == AllRefs(ds)
      RECURSIVE Sum(_)
      Sum(S) == IF S = {} THEN 0
                ELSE LET r == CHOOSE x \in S : TRUE
                     IN  SlotAt(ds, r).current_capacity + Sum(S \ {r})
  IN  Sum(refs)
TotalSlots(ds) == Cardinality(AllRefs(ds))

-----------------------------------------------------------------------------
(* SlotOptimizer.add_doctor_schedule *)

RECURSIVE DaySlots(_, _, _, _, _)
DaySlots(d, current_slot_start, end_time, slot_duration, cap) ==
  IF current_slot_start < end_time
  THEN <<DoctorSlot(d, current_slot_start, current_slot_start + slot_duration, cap)>>
       \o DaySlots(d, current_slot_start + slot_duration, end_time, slot_duration, cap)
  ELSE <<>>

\* a faulty variant of the date loop: weekends are not skipped
RECURSIVE ScheduleSlots_all_days(_, _, _, _, _, _)
ScheduleSlots_all_days(d, current_date, end_date, working_hours, slot_duration, cap) ==
  IF current_date <= end_date
  THEN DaySlots(d, AtHour(current_date, working_hours[1]),
                AtHour(current_date, working_hours[2]), slot_duration, cap)
       \o ScheduleSlots_all_days(d, current_date + MinutesPerDay, end_date,
                                 working_hours, slot_duration, cap)
  ELSE <<>>

RECURSIVE ScheduleSlots(_, _, _, _, _, _)
ScheduleSlots(d, current_date, end_date, working_hours, slot_duration, cap) ==
  IF current_date <= end_date
  THEN (IF Weekday(current_date) < 5
        THEN DaySlots(d, AtHour(current_date, working_hours[1]),
                      AtHour(current_date, working_hours[2]), slot_duration, cap)
        ELSE <<>>)
       \o ScheduleSlots(d, current_date + MinutesPerDay, end_date,
                        working_hours, slot_duration, cap)
  ELSE <<>>

add_doctor_schedule(ds, order, d, start_date, end_date, working_hours, slot_duration, cap) ==
  [ds |-> [ds EXCEPT ![d] = @ \o ScheduleSlots(d, start_date, end_date, working_hours,
                                               slot_duration, cap)],
   order |-> IF d \in Registered(order) THEN order ELSE Append(order, d)]

-----------------------------------------------------------------------------
(* SlotOptimizer: booking, rescheduling, cancelling *)

so_schedule_appointment(ds, sa, p, r, b) ==
  LET a == add_patient(SlotAt(ds, r), p, b)
  IN  IF a.ret
      THEN [ret |-> TRUE, ds |-> SetSlot(ds, r, a.slot), sa |-> [sa EXCEPT ![p] = r]]
      ELSE [ret |-> FALSE, ds |-> SetSlot(ds, r, a.slot), sa |-> sa]

reschedule_appointment(ds, sa, p, r, b) ==
  LET ds1 == IF sa[p] # NoSlot
             THEN SetSlot(ds, sa[p], remove_patient(SlotAt(ds, sa[p]), p).slot)
             ELSE ds
  IN  so_schedule_appointment(ds1, sa, p, r, b)

\* a faulty variant of cancel_appointment: the tracking entry is kept
cancel_appointment_keep(ds, sa, p) ==
  IF sa[p] # NoSlot
  THEN [ret |-> TRUE,
        ds |-> SetSlot(ds, sa[p], remove_patient(SlotAt(ds, sa[p]), p).slot),
        sa |-> sa]
  ELSE [ret |-> FALSE, ds |-> ds, sa |-> sa]

cancel_appointment(ds, sa, p) ==
  IF sa[p] # NoSlot
  THEN [ret |-> TRUE,
        ds |-> SetSlot(ds, sa[p], remove_patient(SlotAt(ds, sa[p]), p).slot),
        sa |-> [sa EXCEPT ![p] = NoSlot]]
  ELSE [ret |-> FALSE, ds |-> ds, sa |-> sa]

-----------------------------------------------------------------------------
(* SlotOptimizer.optimize_schedule: one pass over each doctor's list; slot i *)
(* with no occupant is merged into slot i-1 when the two touch and slot i-1  *)
(* is not full.                                                              *)

MergeCap == 3

\* a faulty variant of the pass: a full predecessor is extended as well
RECURSIVE OptimizeFrom_full(_, _)
OptimizeFrom_full(slots, i) ==
  IF i > Len(slots) THEN slots
  ELSE LET slot == slots[i]
           prev == slots[i - 1]
       IN  IF slot.current_capacity = 0 /\ prev.end_time = slot.start_time
           THEN OptimizeFrom_full([slots EXCEPT ![i - 1] =
                                     [prev EXCEPT !.end_time = slot.end_time,
                                                  !.max_capacity = Min(prev.max_capacity + 1, MergeCap)]],
                                  i + 1)
           ELSE OptimizeFrom_full(slots, i + 1)

RECURSIVE OptimizeFrom(_, _)
OptimizeFrom(slots, i) ==
  IF i > Len(slots) THEN slots
  ELSE LET slot == slots[i]
           prev == slots[i - 1]
       IN  IF slot.current_capacity = 0
              /\ prev.end_time = slot.start_time
              /\ prev.current_capacity < prev.max_capacity
           THEN OptimizeFrom([slots EXCEPT ![i - 1] =
                                [prev EXCEPT !.end_time = slot.end_time,
                                             !.max_capacity = Min(prev.max_capacity + 1, MergeCap)]],
                             i + 1)
           ELSE OptimizeFrom(slots, i + 1)

optimize_schedule(ds) == [d \in Doctors |-> OptimizeFrom(ds[d], 2)]

-----------------------------------------------------------------------------
(* SlotOptimizer: availability and best-slot search *)

RECURSIVE AvailableOn(_, _, _, _)
AvailableOn(ds, d, target_date, i) ==
  IF i > Len(ds[d]) THEN <<>>
  ELSE (IF DateOf(ds[d][i].start_time) = target_date /\ is_available(ds[d][i])
        THEN <<Ref(d, i)>> ELSE <<>>)
       \o AvailableOn(ds, d, target_date, i + 1)

get_doctor_availability(ds, order, d, date) ==
  IF d \notin Registered(order) THEN <<>> ELSE AvailableOn(ds, d, DateOf(date), 1)

\* twenty times the score of the source
calculate_slot_score(slot, preferred_date, preferred_time, risk_level, urgency_score) ==
  (IF preferred_date # NoTime
   THEN 20 * Max(0, 10 - Abs(DateOf(slot.start_time) - DateOf(preferred_date)))
   ELSE 0)
  + (IF preferred_time # None
     THEN LET hour == HourOf(slot.start_time)
          IN  IF preferred_time = "morning" /\ 9 <= hour /\ hour <= 12 THEN 100
              ELSE IF preferred_time = "afternoon" /\ 13 <= hour /\ hour <= 17 THEN 100
              ELSE IF preferred_time = "evening" /\ 18 <= hour /\ hour <= 20 THEN 100
              ELSE 0
     ELSE 0)
  + (IF risk_level = "high" THEN slot.buffer_time * 2
     ELSE IF risk_level = "medium" THEN slot.buffer_time
     ELSE 0)
  + urgency_score * 40
  + get_available_capacity(slot) * 10

\* the slots scanned, in scan order: doctor-map order, then list order
RECURSIVE ScanRefs(_, _, _, _)
ScanRefs(ds, order, preferred_doctor, k) ==
  IF k > Len(order) THEN <<>>
  ELSE (IF preferred_doctor # None /\ order[k] # preferred_doctor
        THEN <<>>
        ELSE SelectSeq([i \in 1..Len(ds[order[k]]) |-> Ref(order[k], i)],
                       LAMBDA r : is_available(SlotAt(ds, r))))
       \o ScanRefs(ds, order, preferred_doctor, k + 1)

\* a faulty variant of the sort: of the entries of maximal key the last comes first
FirstMax_unstable(keys) ==
  CHOOSE i \in 1..Len(keys) :
    /\ \A j \in 1..Len(keys) : keys[j] <= keys[i]
    /\ \A j \in (i + 1)..Len(keys) : keys[j] < keys[i]

\* a stable descending sort puts first the first entry of maximal key
\* (keys: the sort keys in list order; the result is an index)
FirstMax(keys) ==
  CHOOSE i \in 1..Len(keys) :
    /\ \A j \in 1..Len(keys) : keys[j] <= keys[i]
    /\ \A j \in 1..(i - 1) : keys[j] < keys[i]

find_optimal_slot(ds, order, preferred_doctor, preferred_date, preferred_time, risk_level, urgency_score) ==
  LET available_slots == ScanRefs(ds, order, preferred_doctor, 1)
      score(r) == calculate_slot_score(SlotAt(ds, r), preferred_date, preferred_time,
                                       risk_level, urgency_score)
      keys == [i \in 1..Len(available_slots) |-> score(available_slots[i])]
  IN  IF available_slots = <<>> THEN NoSlot ELSE available_slots[FirstMax(keys)]

-----------------------------------------------------------------------------
(* RiskAssessor *)

DefaultThresholds == [low_threshold |-> 30, medium_threshold |-> 60, high_threshold |-> 80]

\* a faulty variant of assess_risk: the tier boundaries are exclusive
assess_risk_strict(th, no_show_probability) ==
  IF no_show_probability < th.low_threshold THEN "low"
  ELSE IF no_show_probability < th.medium_threshold THEN "medium"
  ELSE "high"

assess_risk(th, no_show_probability) ==
  IF no_show_probability <= th.low_threshold THEN "low"
  ELSE IF no_show_probability <= th.medium_threshold THEN "medium"
  ELSE IF no_show_probability <= th.high_threshold THEN "high"
  ELSE "high"

low_risk_strategy(slot_available, slot_capacity) ==
  IF slot_available /\ slot_capacity > 0
  THEN [action |-> "confirm", buffer_time |-> 0, requires_confirmation |-> FALSE,
        waitlist_priority |-> 0, interventions |-> <<"standard_reminder">>,
        notes |-> "Low risk patient - standard scheduling"]
  ELSE [action |-> "reschedule", buffer_time |-> 0, requires_confirmation |-> FALSE,
        waitlist_priority |-> 1, interventions |-> <<"standard_reminder">>,
        notes |-> "Low risk patient - reschedule to available slot"]

\* a faulty variant of medium_risk_strategy: availability ignores the capacity
medium_risk_strategy_flag_only(slot_available, slot_capacity) ==
  IF slot_available
  THEN [action |-> "confirm_with_buffer", buffer_time |-> 15, requires_confirmation |-> TRUE,
        waitlist_priority |-> 2,
        interventions |-> <<"enhanced_reminder", "confirmation_call">>,
        notes |-> "Medium risk patient - confirm with buffer time and follow-up"]
  ELSE [action |-> "reschedule_optimal", buffer_time |-> 0, requires_confirmation |-> TRUE,
        waitlist_priority |-> 3,
        interventions |-> <<"enhanced_reminder", "confirmation_call">>,
        notes |-> "Medium risk patient - find optimal slot with confirmation"]

medium_risk_strategy(slot_available, slot_capacity) ==
  IF slot_available /\ slot_capacity > 0
  THEN [action |-> "confirm_with_buffer", buffer_time |-> 15, requires_confirmation |-> TRUE,
        waitlist_priority |-> 2,
        interventions |-> <<"enhanced_reminder", "confirmation_call">>,
        notes |-> "Medium risk patient - confirm with buffer time and follow-up"]
  ELSE [action |-> "reschedule_optimal", buffer_time |-> 0, requires_confirmation |-> TRUE,
        waitlist_priority |-> 3,
        interventions |-> <<"enhanced_reminder", "confirmation_call">>,
        notes |-> "Medium risk patient - find optimal slot with confirmation"]

high_risk_strategy(slot_available, slot_capacity) ==
  IF slot_available /\ slot_capacity > 0
  THEN [action |-> "confirm_with_extended_buffer", buffer_time |-> 30,
        requires_confirmation |-> TRUE, waitlist_priority |-> 4,
        interventions |-> <<"urgent_reminder", "confirmation_call", "alternative_times">>,
        notes |-> "High risk patient - extended buffer and intensive follow-up"]
  ELSE [action |-> "waitlist_high_priority", buffer_time |-> 0,
        requires_confirmation |-> TRUE, waitlist_priority |-> 5,
        interventions |-> <<"urgent_reminder", "confirmation_call", "alternative_times">>,
        notes |-> "High risk patient - high priority waitlist placement"]

\* strategy.update(...) overwrites every key but risk_level
get_scheduling_strategy(risk_level, slot_available, slot_capacity) ==
  LET base == [risk_level |-> risk_level, action |-> None, buffer_time |-> 0,
               requires_confirmation |-> FALSE, waitlist_priority |-> 0,
               interventions |-> <<>>, notes |-> ""]
      upd == IF risk_level = "low" THEN low_risk_strategy(slot_available, slot_capacity)
             ELSE IF risk_level = "medium"
                  THEN medium_risk_strategy(slot_available, slot_capacity)
             ELSE high_risk_strategy(slot_available, slot_capacity)
  IN  upd @@ base

\* a faulty variant of calculate_waitlist_priority: the score is not clamped
calculate_waitlist_priority_unclamped(th, no_show_probability, urgency_score, waiting_time) ==
  LET risk_level == assess_risk(th, no_show_probability)
      base_priority == IF risk_level = "low" THEN 1
                       ELSE IF risk_level = "medium" THEN 3 ELSE 5
  IN  (2 * base_priority * urgency_score + 5 * Min(waiting_time, 7)) \div 10

\* int(base * (urgency / 5.0) + min(waiting_time, 7) * 0.5), clamped to 1..10;
\* computed in tenths, int() truncating
calculate_waitlist_priority(th, no_show_probability, urgency_score, waiting_time) ==
  LET risk_level == assess_risk(th, no_show_probability)
      base_priority == IF risk_level = "low" THEN 1
                       ELSE IF risk_level = "medium" THEN 3 ELSE 5
      priority_score == (2 * base_priority * urgency_score + 5 * Min(waiting_time, 7)) \div 10
  IN  Max(1, Min(priority_score, 10))

-----------------------------------------------------------------------------
(* heapq, as WaitlistManager uses it; positions count from 0 as in Python.  *)
(* WaitlistEntry.__lt__ makes the entry of highest priority the least one.  *)

entry_lt(a, b) == a.priority_score > b.priority_score

RECURSIVE SiftDownLoop(_, _, _, _)
SiftDownLoop(heap, startpos, pos, newitem) ==
  IF pos > startpos
  THEN LET parentpos == (pos - 1) \div 2
           parent == heap[parentpos + 1]
       IN  IF entry_lt(newitem, parent)
           THEN SiftDownLoop([heap EXCEPT ![pos + 1] = parent], startpos, parentpos, newitem)
           ELSE [heap EXCEPT ![pos + 1] = newitem]
  ELSE [heap EXCEPT ![pos + 1] = newitem]

siftdown(heap, startpos, pos) == SiftDownLoop(heap, startpos, pos, heap[pos + 1])

RECURSIVE SiftUpLoop(_, _, _, _, _)
SiftUpLoop(heap, startpos, pos, childpos, newitem) ==
  IF childpos < Len(heap)
  THEN LET rightpos == childpos + 1
           c == IF rightpos < Len(heap) /\ ~entry_lt(heap[childpos + 1], heap[rightpos + 1])
                THEN rightpos ELSE childpos
       IN  SiftUpLoop([heap EXCEPT ![pos + 1] = heap[c + 1]], startpos, c, 2 * c + 1, newitem)
  ELSE siftdown([heap EXCEPT ![pos + 1] = newitem], startpos, pos)

siftup(heap, pos) == SiftUpLoop(heap, pos, pos, 2 * pos + 1, heap[pos + 1])

RECURSIVE HeapifyFrom(_, _)
HeapifyFrom(heap, i) == IF i < 0 THEN heap ELSE HeapifyFrom(siftup(heap, i), i - 1)

heapify(x) == HeapifyFrom(x, (Len(x) \div 2) - 1)

heappush(heap, item) == siftdown(Append(heap, item), 0, Len(heap))

-----------------------------------------------------------------------------
(* WaitlistEntry *)

\* a faulty variant of _calculate_priority_score: the waiting bonus is not capped
calculate_priority_score_uncapped(e) ==
  LET risk_level == assess_risk(DefaultThresholds, e.no_show_probability)
      base_priority == IF risk_level = "low" THEN 1
                       ELSE IF risk_level = "medium" THEN 3 ELSE 5
      risk_bonus == IF risk_level = "high" THEN 2
                    ELSE IF risk_level = "medium" THEN 1 ELSE 0
      tenths == 2 * base_priority * e.urgency_score + 5 * e.waiting_days + 10 * risk_bonus
  IN  [e EXCEPT !.priority_score = Max(1, Min(tenths \div 10, 10))]

\* int(base * urgency / 5.0 + min(waiting_days, 7) * 0.5 + bonus), clamped to 1..10;
\* computed in tenths.  The entry always uses a RiskAssessor with default thresholds.
calculate_priority_score(e) ==
  LET risk_level == assess_risk(DefaultThresholds, e.no_show_probability)
      base_priority == IF risk_level = "low" THEN 1
                       ELSE IF risk_level = "medium" THEN 3 ELSE 5
      risk_bonus == IF risk_level = "high" THEN 2
                    ELSE IF risk_level = "medium" THEN 1 ELSE 0
      tenths == 2 * base_priority * e.urgency_score + 5 * Min(e.waiting_days, 7)
                + 10 * risk_bonus
  IN  [e EXCEPT !.priority_score = Max(1, Min(tenths \div 10, 10))]

WaitlistEntry(patient_id, no_show_probability, urgency_score, entry_date, preferred_doctor, preferred_date, medical_notes) ==
  calculate_priority_score(
    [patient_id |-> patient_id, no_show_probability |-> no_show_probability,
     urgency_score |-> urgency_score, entry_date |-> entry_date,
     preferred_doctor |-> preferred_doctor, preferred_date |-> preferred_date,
     medical_notes |-> medical_notes, waiting_days |-> 0,
     last_contact_date |-> entry_date, contact_attempts |-> 0, priority_score |-> 0])

update_waiting_time(e, t) ==
  calculate_priority_score([e EXCEPT !.waiting_days = (t - e.entry_date) \div MinutesPerDay])

-----------------------------------------------------------------------------
(* WaitlistManager.  W is its state: the heap array, the key set of         *)
(* patient_records (the records are the entries of the array themselves)    *)
(* and the contact schedule.                                                *)

schedule_contact(W, t, patient_id, days_delay) ==
  [W EXCEPT !.contact_schedule[patient_id] = t + days_delay * MinutesPerDay]

\* a faulty variant of add_patient: a patient already present is entered again
wl_add_patient_again(W, t, patient_id, no_show_probability, urgency_score, preferred_doctor, preferred_date, medical_notes) ==
  LET entry == WaitlistEntry(patient_id, no_show_probability, urgency_score, t,
                             preferred_doctor, preferred_date, medical_notes)
      W1 == [W EXCEPT !.patient_records = @ \cup {patient_id},
                      !.waitlist = heappush(@, entry)]
  IN  [ret |-> TRUE, W |-> schedule_contact(W1, t, patient_id, 1)]

wl_add_patient(W, t, patient_id, no_show_probability, urgency_score, preferred_doctor, preferred_date, medical_notes) ==
  IF patient_id \in W.patient_records
  THEN [ret |-> FALSE, W |-> W]
  ELSE LET entry == WaitlistEntry(patient_id, no_show_probability, urgency_score, t,
                                  preferred_doctor, preferred_date, medical_notes)
           W1 == [W EXCEPT !.patient_records = @ \cup {patient_id},
                           !.waitlist = heappush(@, entry)]
       IN  [ret |-> TRUE, W |-> schedule_contact(W1, t, patient_id, 1)]

\* a faulty variant of remove_patient: the contact schedule entry is kept
wl_remove_patient_keep_contact(W, patient_id) ==
  IF patient_id \notin W.patient_records
  THEN [ret |-> FALSE, W |-> W]
  ELSE [ret |-> TRUE,
        W |-> [W EXCEPT !.patient_records = @ \ {patient_id},
                        !.waitlist = heapify(SelectSeq(@, LAMBDA e : e.patient_id # patient_id))]]

wl_remove_patient(W, patient_id) ==
  IF patient_id \notin W.patient_records
  THEN [ret |-> FALSE, W |-> W]
  ELSE [ret |-> TRUE,
        W |-> [W EXCEPT !.patient_records = @ \ {patient_id},
                        !.waitlist = heapify(SelectSeq(@, LAMBDA e : e.patient_id # patient_id)),
                        !.contact_schedule[patient_id] = NoTime]]

\* a faulty variant of _update_all_waiting_times: the queue is not rebuilt
update_all_waiting_times_no_heapify(W, t) ==
  [W EXCEPT !.waitlist =
     [i \in 1..Len(W.waitlist) |-> update_waiting_time(W.waitlist[i], t)]]

update_all_waiting_times(W, t) ==
  [W EXCEPT !.waitlist =
     heapify([i \in 1..Len(W.waitlist) |-> update_waiting_time(W.waitlist[i], t)])]

\* waitlist[:count]
get_top_patients(W, t, count) ==
  LET W1 == update_all_waiting_times(W, t)
  IN  [ret |-> SubSeq(W1.waitlist, 1, Min(count, Len(W1.waitlist))), W |-> W1]

\* an optional number left out (None)
NoNumber == 0 - 1

\* a faulty variant of update_patient_priority: the score is not recalculated
update_patient_priority_stale(W, patient_id, new_no_show_probability, new_urgency_score) ==
  IF patient_id \notin W.patient_records
  THEN [ret |-> FALSE, W |-> W]
  ELSE LET upd(e) ==
             [e EXCEPT !.no_show_probability =
                         IF new_no_show_probability # NoNumber
                         THEN new_no_show_probability ELSE @,
                       !.urgency_score =
                         IF new_urgency_score # NoNumber THEN new_urgency_score ELSE @]
       IN  [ret |-> TRUE,
            W |-> [W EXCEPT !.waitlist =
                     heapify([i \in 1..Len(W.waitlist) |->
                                IF W.waitlist[i].patient_id = patient_id
                                THEN upd(W.waitlist[i]) ELSE W.waitlist[i]])]]

\* the entry is mutated in place, at its position in the queue, then heapify
update_patient_priority(W, patient_id, new_no_show_probability, new_urgency_score) ==
  IF patient_id \notin W.patient_records
  THEN [ret |-> FALSE, W |-> W]
  ELSE LET upd(e) ==
             calculate_priority_score(
               [e EXCEPT !.no_show_probability =
                           IF new_no_show_probability # NoNumber
                           THEN new_no_show_probability ELSE @,
                         !.urgency_score =
                           IF new_urgency_score # NoNumber THEN new_urgency_score ELSE @])
       IN  [ret |-> TRUE,
            W |-> [W EXCEPT !.waitlist =
                     heapify([i \in 1..Len(W.waitlist) |->
                                IF W.waitlist[i].patient_id = patient_id
                                THEN upd(W.waitlist[i]) ELSE W.waitlist[i]])]]

\* the patients whose scheduled contact time is now or in the past
get_contact_schedule(W, t) ==
  [p \in {q \in DOMAIN W.contact_schedule :
            W.contact_schedule[q] # NoTime /\ t >= W.contact_schedule[q]}
     |-> W.contact_schedule[p]]

\* a faulty variant of record_contact_attempt: every tier is contacted weekly
record_contact_attempt_weekly(W, t, patient_id, success) ==
  IF patient_id \notin W.patient_records
  THEN [ret |-> FALSE, W |-> W]
  ELSE LET W1 == [W EXCEPT !.waitlist =
                     [i \in 1..Len(W.waitlist) |->
                        IF W.waitlist[i].patient_id = patient_id
                        THEN [W.waitlist[i] EXCEPT !.last_contact_date = t,
                                                   !.contact_attempts = @ + 1]
                        ELSE W.waitlist[i]]]
       IN  [ret |-> TRUE, W |-> schedule_contact(W1, t, patient_id, IF success THEN 7 ELSE 1)]

\* WaitlistEntry.record_contact_attempt on the patient's entry, then the next
\* contact is scheduled
record_contact_attempt(W, t, patient_id, success) ==
  IF patient_id \notin W.patient_records
  THEN [ret |-> FALSE, W |-> W]
  ELSE LET entry == W.waitlist[CHOOSE i \in 1..Len(W.waitlist) :
                                 W.waitlist[i].patient_id = patient_id]
           W1 == [W EXCEPT !.waitlist =
                     [i \in 1..Len(W.waitlist) |->
                        IF W.waitlist[i].patient_id = patient_id
                        THEN [W.waitlist[i] EXCEPT !.last_contact_date = t,
                                                   !.contact_attempts = @ + 1]
                        ELSE W.waitlist[i]]]
           risk_level == assess_risk(DefaultThresholds, entry.no_show_probability)
           next_contact_days == IF risk_level = "high" THEN 1
                                ELSE IF risk_level = "medium" THEN 3 ELSE 7
       IN  [ret |-> TRUE,
            W |-> IF success
                  THEN schedule_contact(W1, t, patient_id, next_contact_days)
                  ELSE schedule_contact(W1, t, patient_id, 1)]

calculate_slot_match_score(entry, available_slot, slot_date) ==
  entry.priority_score * 2
  + (IF entry.preferred_date # NoTime
     THEN Max(0, 10 - Abs(DateOf(slot_date) - DateOf(entry.preferred_date)))
     ELSE 0)
  + (LET hour == HourOf(available_slot.start_time)
     IN  IF 9 <= hour /\ hour <= 12 THEN 3
         ELSE IF 13 <= hour /\ hour <= 17 THEN 3
         ELSE IF 18 <= hour /\ hour <= 20 THEN 3
         ELSE 0)
  + (LET risk_level == assess_risk(DefaultThresholds, entry.no_show_probability)
     IN  IF risk_level = "high" THEN 5 ELSE IF risk_level = "medium" THEN 3 ELSE 0)

\* a faulty variant of the suitability filter: the preferred date is not looked at
Suitable_any_date(entry, doctor_id, slot_date) ==
  ~(entry.preferred_doctor # None /\ entry.preferred_doctor # doctor_id)

Suitable(entry, doctor_id, slot_date) ==
  /\ ~(entry.preferred_doctor # None /\ entry.preferred_doctor # doctor_id)
  /\ ~(entry.preferred_date # NoTime
       /\ Abs(DateOf(slot_date) - DateOf(entry.preferred_date)) > 7)

\* returns the patient id of the chosen entry, or None
find_optimal_patient_for_slot(W, t, available_slot, doctor_id, slot_date) ==
  IF W.waitlist = <<>>
  THEN [ret |-> None, W |-> W]
  ELSE LET W1 == update_all_waiting_times(W, t)
           suitable_patients == SelectSeq(W1.waitlist,
                                          LAMBDA e : Suitable(e, doctor_id, slot_date))
           score(e) == calculate_slot_match_score(e, available_slot, slot_date)
       IN  [ret |-> IF suitable_patients = <<>> THEN None
                    ELSE suitable_patients[FirstMax([i \in 1..Len(suitable_patients) |->
                                       score(suitable_patients[i])])].patient_id,
            W |-> W1]

-----------------------------------------------------------------------------
(* MLModelIntegration: the model is an oracle.  An oracle answer is the row  *)
(* of class probabilities predict_proba returns, the label predict returns,  *)
(* and which of the two calls, if any, raises.                               *)

predict_no_show_probability(oracle) ==
  IF Len(oracle.proba) > 1 THEN oracle.proba[2] ELSE oracle.proba[1]

predict_with_full_output(oracle) ==
  [prediction |-> IF oracle.label = 1 THEN "No-show" ELSE "Show",
   no_show_probability |-> oracle.proba[1],
   show_probability |-> IF Len(oracle.proba) = 2 THEN oracle.proba[2]
                        ELSE 100 - oracle.proba[1]]

-----------------------------------------------------------------------------
(* AIAppointmentScheduler.  S is the state of the scheduler's components:    *)
(* ds, order, sa (SlotOptimizer) and W (WaitlistManager).                    *)

check_slot_availability(S, req) ==
  LET available_slots ==
        IF req.preferred_doctor # None /\ req.preferred_date # NoTime
        THEN get_doctor_availability(S.ds, S.order, req.preferred_doctor, req.preferred_date)
        ELSE <<>>
  IN  IF available_slots # <<>>
      THEN [slot_available |-> TRUE, optimal_slot |-> available_slots[1]]
      ELSE [slot_available |-> FALSE,
            optimal_slot |-> find_optimal_slot(S.ds, S.order, req.preferred_doctor,
                                               req.preferred_date, req.preferred_time,
                                               "low", 1)]

estimate_wait_time(priority_score) ==
  IF priority_score >= 8 THEN "1-2 days"
  ELSE IF priority_score >= 6 THEN "3-5 days"
  ELSE IF priority_score >= 4 THEN "1-2 weeks"
  ELSE "2-4 weeks"

Failed(result, msg) == ("success" :> FALSE) @@ ("error" :> msg) @@ result

\* the booking branches: book optimal_slot, report `details` on success
BookBranch(S, result, patient_id, strategy, optimal_slot, details, failure, no_slot) ==
  IF optimal_slot # NoSlot
  THEN LET b == so_schedule_appointment(S.ds, S.sa, patient_id, optimal_slot,
                                        strategy.buffer_time)
           slot == SlotAt(S.ds, optimal_slot)
       IN  [S |-> [S EXCEPT !.ds = b.ds, !.sa = b.sa],
            result |-> IF b.ret
                       THEN details
                            @@ [slot_assigned |-> TRUE, doctor_id |-> slot.doctor_id,
                                start_time |-> slot.start_time, end_time |-> slot.end_time]
                            @@ result
                       ELSE Failed(result, failure)]
  ELSE [S |-> S, result |-> Failed(result, no_slot)]

execute_scheduling_decision(S, t, req, strategy, optimal_slot, no_show_probability) ==
  LET patient_id == req.patient_id
      action == strategy.action
      result == [success |-> TRUE, patient_id |-> patient_id, action |-> action,
                 risk_level |-> strategy.risk_level,
                 no_show_probability |-> no_show_probability,
                 strategy |-> strategy, timestamp |-> t]
  IN  IF action = "confirm"
      THEN BookBranch(S, result, patient_id, strategy, optimal_slot,
                      [buffer_time |-> strategy.buffer_time],
                      "Failed to schedule appointment", "No suitable slot available")
      ELSE IF action = "confirm_with_buffer"
      THEN BookBranch(S, result, patient_id, strategy, optimal_slot,
                      [buffer_time |-> strategy.buffer_time,
                       requires_confirmation |-> strategy.requires_confirmation],
                      "Failed to schedule appointment", "No suitable slot available")
      ELSE IF action = "reschedule"
      THEN BookBranch(S, result, patient_id, strategy, optimal_slot,
                      [rescheduled |-> TRUE,
                       original_preferences |-> [doctor |-> req.preferred_doctor,
                                                 date |-> req.preferred_date,
                                                 time |-> req.preferred_time]],
                      "Failed to reschedule appointment", "No alternative slot available")
      ELSE IF action = "waitlist"
      THEN [S |-> S,
            result |-> [slot_assigned |-> FALSE,
                        waitlist_priority |-> strategy.waitlist_priority,
                        estimated_wait_time |-> estimate_wait_time(strategy.waitlist_priority)]
                       @@ result]
      ELSE [S |-> S, result |-> Failed(result, "Unknown action")]

add_to_waitlist(S, t, req, no_show_probability) ==
  [S EXCEPT !.W = wl_add_patient(@, t, req.patient_id, no_show_probability,
                                 req.urgency_score, req.preferred_doctor,
                                 req.preferred_date, req.medical_notes).W]

ErrorResult(t, msg) ==
  [success |-> FALSE, error |-> msg, action |-> "error", timestamp |-> t]

\* the try block of schedule_appointment, steps 1 to 7, when no call raises
schedule_appointment_steps(S, th, cfg, t, req, oracle) ==
  LET  no_show_probability == predict_no_show_probability(oracle)
           full_prediction == predict_with_full_output(oracle)
           risk_level == assess_risk(th, no_show_probability)
           chk == check_slot_availability(S, req)
           strategy == get_scheduling_strategy(
                         risk_level, chk.slot_available,
                         IF chk.optimal_slot # NoSlot
                         THEN get_available_capacity(SlotAt(S.ds, chk.optimal_slot))
                         ELSE 0)
           x == execute_scheduling_decision(S, t, req, strategy, chk.optimal_slot,
                                            no_show_probability)
           result == [ml_prediction |-> full_prediction.prediction,
                      no_show_probability |-> full_prediction.no_show_probability,
                      show_probability |-> full_prediction.show_probability,
                      risk_level |-> risk_level]
                     @@ x.result
           S6 == IF result.action = "waitlist"
                 THEN add_to_waitlist(x.S, t, req, no_show_probability)
                 ELSE x.S
           S7 == IF cfg.auto_optimize_schedule
                 THEN [S6 EXCEPT !.ds = optimize_schedule(@)]
                 ELSE S6
       IN  [S |-> S7, result |-> result]

\* a faulty variant of schedule_appointment: the exception surfaces after step 7
schedule_appointment_late_failure(S, th, cfg, t, req, oracle) ==
  IF oracle.raises # None
  THEN [S |-> schedule_appointment_steps(S, th, cfg, t, req, oracle).S,
        result |-> ErrorResult(t, oracle.raises)]
  ELSE schedule_appointment_steps(S, th, cfg, t, req, oracle)

\* both oracle calls (steps 1 and 1.5) come before any write; an exception of
\* either is caught by the except branch
schedule_appointment(S, th, cfg, t, req, oracle) ==
  IF oracle.raises # None
  THEN [S |-> S, result |-> ErrorResult(t, oracle.raises)]
  ELSE schedule_appointment_steps(S, th, cfg, t, req, oracle)

\* optimize_schedule leaving its loop by an exception once the lists of the
\* first `done` doctors of the map have been processed
optimize_schedule_until(ds, order, done) ==
  [d \in Doctors |->
     IF \E k \in 1..Min(done, Len(order)) : order[k] = d
     THEN OptimizeFrom(ds[d], 2) ELSE ds[d]]

\* a failure of step 7: its message, and how far optimize_schedule got
NoFault == [msg |-> None, done |-> 0]

\* schedule_appointment when step 7 may raise: the call of line 112 is inside
\* the try block of line 74, so its exception reaches the except branch of
\* line 116 like any other
schedule_appointment_step7(S, th, cfg, t, req, oracle, fault) ==
  IF oracle.raises # None \/ ~cfg.auto_optimize_schedule \/ fault.msg = None
  THEN schedule_appointment(S, th, cfg, t, req, oracle)
  ELSE LET x == schedule_appointment_steps(S, th, [cfg EXCEPT !.auto_optimize_schedule = FALSE],
                                           t, req, oracle)
       IN  [S |-> [x.S EXCEPT !.ds = optimize_schedule_until(@, S.order, fault.done)],
            result |-> ErrorResult(t, fault.msg)]

\* every slot, in the order process_waitlist_fill visits them
RECURSIVE VisitOrder(_, _, _)
VisitOrder(ds, order, k) ==
  IF k > Len(order) THEN <<>>
  ELSE [i \in 1..Len(ds[order[k]]) |-> Ref(order[k], i)] \o VisitOrder(ds, order, k + 1)

\* a faulty variant of the fill loop: the booked entry stays on the waitlist
RECURSIVE FillFrom_keep(_, _, _, _, _)
FillFrom_keep(S, t, refs, k, filled_slots) ==
  IF k > Len(refs) THEN [S |-> S, filled_slots |-> filled_slots]
  ELSE LET r == refs[k]
           slot == SlotAt(S.ds, r)
       IN  IF ~is_available(slot) THEN FillFrom_keep(S, t, refs, k + 1, filled_slots)
           ELSE LET f == find_optimal_patient_for_slot(S.W, t, slot, r[1], slot.start_time)
                IN  IF f.ret = None
                    THEN FillFrom_keep([S EXCEPT !.W = f.W], t, refs, k + 1, filled_slots)
                    ELSE LET b == so_schedule_appointment(S.ds, S.sa, f.ret, r, 0)
                         IN  FillFrom_keep([S EXCEPT !.ds = b.ds, !.sa = b.sa, !.W = f.W],
                                           t, refs, k + 1,
                                           IF b.ret THEN filled_slots + 1 ELSE filled_slots)

RECURSIVE FillFrom(_, _, _, _, _)
FillFrom(S, t, refs, k, filled_slots) ==
  IF k > Len(refs) THEN [S |-> S, filled_slots |-> filled_slots]
  ELSE LET r == refs[k]
           slot == SlotAt(S.ds, r)
       IN  IF ~is_available(slot) THEN FillFrom(S, t, refs, k + 1, filled_slots)
           ELSE LET f == find_optimal_patient_for_slot(S.W, t, slot, r[1], slot.start_time)
                IN  IF f.ret = None
                    THEN FillFrom([S EXCEPT !.W = f.W], t, refs, k + 1, filled_slots)
                    ELSE LET b == so_schedule_appointment(S.ds, S.sa, f.ret, r, 0)
                         IN  IF b.ret
                             THEN FillFrom([S EXCEPT !.ds = b.ds, !.sa = b.sa,
                                                     !.W = wl_remove_patient(f.W, f.ret).W],
                                           t, refs, k + 1, filled_slots + 1)
                             ELSE FillFrom([S EXCEPT !.ds = b.ds, !.sa = b.sa, !.W = f.W],
                                           t, refs, k + 1, filled_slots)

process_waitlist_fill(S, cfg, t) ==
  IF ~cfg.enable_waitlist_auto_fill
  THEN [S |-> S, success |-> FALSE, filled_slots |-> 0]
  ELSE LET f == FillFrom(S, t, VisitOrder(S.ds, S.order, 1), 1, 0)
       IN  [S |-> f.S, success |-> TRUE, filled_slots |-> f.filled_slots]

\* _find_cancelled_slot_info: "For now, return None"
find_cancelled_slot_info(patient_id) == NoSlot

\* _attempt_waitlist_fill_for_slot: its body is `pass`
attempt_waitlist_fill_for_slot(S, slot_info) == S

handle_appointment_cancellation(S, cfg, t, patient_id) ==
  LET c == cancel_appointment(S.ds, S.sa, patient_id)
      S1 == [S EXCEPT !.ds = c.ds, !.sa = c.sa]
  IN  IF c.ret
      THEN LET slot_info == find_cancelled_slot_info(patient_id)
           IN  [S |-> IF slot_info # NoSlot /\ cfg.enable_waitlist_auto_fill
                      THEN attempt_waitlist_fill_for_slot(S1, slot_info)
                      ELSE S1,
                result |-> [success |-> TRUE, action |-> "cancelled",
                            patient_id |-> patient_id, timestamp |-> t]]
      ELSE [S |-> S1,
            result |-> [success |-> FALSE, error |-> "Patient not found in schedule",
                        patient_id |-> patient_id]]

-----------------------------------------------------------------------------
(* The state as one value, and its initial value (after the constructors)   *)

TheW == [waitlist |-> waitlist, patient_records |-> patient_records,
         contact_schedule |-> contact_schedule]

TheS == [ds |-> doctor_slots, order |-> doctor_order, sa |-> slot_assignments, W |-> TheW]

SetW(W) ==
  /\ waitlist' = W.waitlist
  /\ patient_records' = W.patient_records
  /\ contact_schedule' = W.contact_schedule

SetS(S) ==
  /\ doctor_slots' = S.ds
  /\ doctor_order' = S.order
  /\ slot_assignments' = S.sa
  /\ SetW(S.W)

DefaultConfig == [auto_optimize_schedule |-> TRUE, enable_waitlist_auto_fill |-> TRUE]

NoCall == [op |-> "init"]

\* callers of the scheduler; a frame is a caller's position and local variables
Callers == {"c1", "c2", "c3"}
Idle == [pc |-> "idle"]
NoCalls == [critical |-> FALSE, frames |-> [c \in Callers |-> Idle]]

InitComponents ==
  /\ doctor_slots = [d \in Doctors |-> <<>>]
  /\ doctor_order = <<>>
  /\ slot_assignments = [p \in WaitlistPatients |-> NoSlot]
  /\ waitlist = <<>>
  /\ patient_records = {}
  /\ contact_schedule = [p \in WaitlistPatients |-> NoTime]
  /\ config = DefaultConfig
  /\ now = 0
  /\ last = NoCall
  /\ calls = NoCalls

-----------------------------------------------------------------------------
(* SlotOptimizer driven directly.  Each doctor's schedule is registered at  *)
(* most once, for one Monday and a one-hour window.                         *)

CapChoices == {1, 2, 5}
DurationChoices == {30, 60}
BufferChoices == {0, 15}
Monday == At(0, 0, 0)

AddDoctorSchedule(d, start_date, end_date, working_hours, slot_duration, cap) ==
  LET a == add_doctor_schedule(doctor_slots, doctor_order, d, start_date, end_date,
                               working_hours, slot_duration, cap)
  IN  /\ d \notin Registered(doctor_order)
      /\ doctor_slots' = a.ds
      /\ doctor_order' = a.order
      /\ last' = [op |-> "add_doctor_schedule"]
      /\ UNCHANGED <<calls, slot_assignments, waitlist, patient_records, contact_schedule,
                     thresholds, config, now>>

SOSchedule(p, r, b) ==
  LET x == so_schedule_appointment(doctor_slots, slot_assignments, p, r, b)
  IN  /\ Occupancy(doctor_slots) < MaxBooked
      /\ doctor_slots' = x.ds
      /\ slot_assignments' = x.sa
      /\ last' = [op |-> "SlotOptimizer.schedule_appointment", ret |-> x.ret]
      /\ UNCHANGED <<calls, doctor_order, waitlist, patient_records, contact_schedule,
                     thresholds, config, now>>

SOReschedule(p, r, b) ==
  LET x == reschedule_appointment(doctor_slots, slot_assignments, p, r, b)
  IN  /\ Occupancy(doctor_slots) < MaxBooked
      /\ doctor_slots' = x.ds
      /\ slot_assignments' = x.sa
      /\ last' = [op |-> "reschedule_appointment", ret |-> x.ret]
      /\ UNCHANGED <<calls, doctor_order, waitlist, patient_records, contact_schedule,
                     thresholds, config, now>>

\* `again` records that this call directly follows a successful cancellation of
\* the same patient
SOCancel(p) ==
  LET x == cancel_appointment(doctor_slots, slot_assignments, p)
  IN  /\ doctor_slots' = x.ds
      /\ slot_assignments' = x.sa
      /\ last' = [op |-> "cancel_appointment", ret |-> x.ret, patient |-> p,
                  again |-> (last.op = "cancel_appointment" /\ last.patient = p /\ last.ret)]
      /\ UNCHANGED <<calls, doctor_order, waitlist, patient_records, contact_schedule,
                     thresholds, config, now>>

Optimize ==
  /\ doctor_slots' = optimize_schedule(doctor_slots)
  /\ last' = [op |-> "optimize_schedule"]
  /\ UNCHANGED <<calls, doctor_order, slot_assignments, waitlist, patient_records,
                 contact_schedule, thresholds, config, now>>

WLAdd(p, prob, urgency, pdoc, pdate) ==
  LET x == wl_add_patient(TheW, now, p, prob, urgency, pdoc, pdate, "")
  IN  /\ SetW(x.W)
      /\ last' = [op |-> "add_patient", ret |-> x.ret]
      /\ UNCHANGED <<calls, doctor_slots, doctor_order, slot_assignments, thresholds, config, now>>

ProcessWaitlistFill ==
  LET x == process_waitlist_fill(TheS, config, now)
  IN  /\ SetS(x.S)
      /\ last' = [op |-> "process_waitlist_fill", ret |-> x.success,
                  filled_slots |-> x.filled_slots]
      /\ UNCHANGED <<calls, thresholds, config, now>>

InitSlots == InitComponents /\ thresholds = DefaultThresholds

NextSlots ==
  \/ \E dur \in DurationChoices, cap \in CapChoices :
       AddDoctorSchedule("D1", Monday, Monday, <<9, 10>>, dur, cap)
  \/ \E p \in Patients, r \in AllRefs(doctor_slots), b \in BufferChoices : SOSchedule(p, r, b)
  \/ \E p \in Patients, r \in AllRefs(doctor_slots), b \in BufferChoices : SOReschedule(p, r, b)
  \/ \E p \in Patients : SOCancel(p)
  \/ Optimize
  \/ WLAdd("p2", 90, 3, None, NoTime)
  \/ ProcessWaitlistFill

SpecSlots == InitSlots /\ [][NextSlots]_vars

-----------------------------------------------------------------------------
(* The scheduler driven through AIAppointmentScheduler.schedule_appointment, *)
(* one call at a time (the calls do not interleave).                         *)

Tuesday == At(1, 0, 0)
SchedCapChoices == {1, 2}

ReqChoices ==
  {[patient_id |-> p, preferred_doctor |-> d, preferred_date |-> t,
    preferred_time |-> None, urgency_score |-> 2, medical_notes |-> "consultation"] :
     p \in Patients, d \in {None, "D1"}, t \in {NoTime, Monday, Tuesday}}

OracleChoices ==
  {[proba |-> pr, label |-> IF pr[2] > 50 THEN 1 ELSE 0, raises |-> None] :
     pr \in {<<80, 20>>, <<50, 50>>, <<10, 90>>}}
  \cup {[proba |-> <<80, 20>>, label |-> 0, raises |-> m] :
          m \in {"Prediction failed", "Full prediction failed"}}

AISchedule(req, oracle) ==
  LET x == schedule_appointment(TheS, thresholds, config, now, req, oracle)
  IN  /\ SetS(x.S)
      /\ last' = [op |-> "AIAppointmentScheduler.schedule_appointment",
                  result |-> x.result]
      /\ UNCHANGED <<calls, thresholds, config, now>>

InitSched == InitComponents /\ thresholds = DefaultThresholds

NextSched ==
  \/ \E dur \in DurationChoices, cap \in SchedCapChoices :
       AddDoctorSchedule("D1", Monday, Monday, <<9, 10>>, dur, cap)
  \/ \E req \in ReqChoices, oracle \in OracleChoices : AISchedule(req, oracle)
  \/ \E p \in Patients : SOCancel(p)

SpecSched == InitSched /\ [][NextSched]_vars

-----------------------------------------------------------------------------
(* WaitlistManager driven directly, with time passing between the calls.    *)

MaxDay == 8
TickDays == 4
WaitProbChoices == {20, 85}
WaitUrgencyChoices == {1, 5}

WLRemove(p) ==
  LET x == wl_remove_patient(TheW, p)
  IN  /\ SetW(x.W)
      /\ last' = [op |-> "remove_patient", ret |-> x.ret]
      /\ UNCHANGED <<calls, doctor_slots, doctor_order, slot_assignments, thresholds, config, now>>

WLUpdatePriority(p, new_prob, new_urgency) ==
  LET x == update_patient_priority(TheW, p, new_prob, new_urgency)
  IN  /\ SetW(x.W)
      /\ last' = [op |-> "update_patient_priority", ret |-> x.ret]
      /\ UNCHANGED <<calls, doctor_slots, doctor_order, slot_assignments, thresholds, config, now>>

GetTopPatients(count) ==
  LET x == get_top_patients(TheW, now, count)
  IN  /\ SetW(x.W)
      /\ last' = [op |-> "get_top_patients", count |-> count, top |-> x.ret]
      /\ UNCHANGED <<calls, doctor_slots, doctor_order, slot_assignments, thresholds, config, now>>

FindOptimalPatientForSlot(available_slot) ==
  LET x == find_optimal_patient_for_slot(TheW, now, available_slot, available_slot.doctor_id,
                                         available_slot.start_time)
  IN  /\ SetW(x.W)
      /\ last' = [op |-> "find_optimal_patient_for_slot", slot |-> available_slot,
                  found |-> x.ret]
      /\ UNCHANGED <<calls, doctor_slots, doctor_order, slot_assignments, thresholds, config, now>>

\* datetime.now() moves on between two calls
Tick ==
  /\ now + TickDays * MinutesPerDay <= MaxDay * MinutesPerDay
  /\ now' = now + TickDays * MinutesPerDay
  /\ last' = [op |-> "tick"]
  /\ UNCHANGED <<calls, doctor_slots, doctor_order, slot_assignments, waitlist, patient_records,
                 contact_schedule, thresholds, config>>

InitWaitlist == InitComponents /\ thresholds = DefaultThresholds

NextWaitlist ==
  \/ \E p \in WaitlistPatients, prob \in WaitProbChoices, u \in WaitUrgencyChoices :
       WLAdd(p, prob, u, None, NoTime)
  \/ \E p \in WaitlistPatients : WLRemove(p)
  \/ \E new_prob \in WaitProbChoices : WLUpdatePriority("p1", new_prob, NoNumber)
  \/ \E new_urgency \in WaitUrgencyChoices : WLUpdatePriority("p2", NoNumber, new_urgency)
  \/ GetTopPatients(1)
  \/ FindOptimalPatientForSlot(DoctorSlot("D1", At(0, 9, 0), At(0, 10, 0), 1))
  \/ Tick

SpecWaitlist == InitWaitlist /\ [][NextWaitlist]_vars

-----------------------------------------------------------------------------
(* The waitlist fill pass: two doctors, registered in either order, a       *)
(* waitlist of up to three patients, each joining it only while not booked, *)
(* and the auto-fill switch.                                                *)

UpdateConfiguration(key, value) ==
  /\ config' = (IF key \in DOMAIN config THEN [config EXCEPT ![key] = value] ELSE config)
  /\ config' # config
  /\ last' = [op |-> "update_configuration", ret |-> TRUE]
  /\ UNCHANGED <<calls, doctor_slots, doctor_order, slot_assignments, waitlist, patient_records,
                 contact_schedule, thresholds, now>>

InitFill == InitComponents /\ thresholds = DefaultThresholds

NextFill ==
  \/ \E dur \in DurationChoices, cap \in SchedCapChoices :
       AddDoctorSchedule("D1", Monday, Monday, <<9, 10>>, dur, cap)
  \/ AddDoctorSchedule("D2", Monday, Monday, <<9, 10>>, 60, 1)
  \/ \E p \in WaitlistPatients, prob \in WaitProbChoices, pdoc \in {None, "D2"} :
       slot_assignments[p] = NoSlot /\ WLAdd(p, prob, 3, pdoc, NoTime)
  \/ \E value \in BOOLEAN : UpdateConfiguration("enable_waitlist_auto_fill", value)
  \/ ProcessWaitlistFill

SpecFill == InitFill /\ [][NextFill]_vars

-----------------------------------------------------------------------------
(* Interleaved calls of AIAppointmentScheduler.schedule_appointment: each    *)
(* caller runs steps 1-3, step 4, step 5 and steps 6-7 as separate atomic    *)
(* steps, so a booking (step 5) may act on an availability check (step 3)    *)
(* that other callers have made stale.  Every SlotOptimizer call is atomic.  *)
(* Each caller makes one call.                                               *)

PatientOf == [c \in Callers |-> IF c = "c1" THEN "p1" ELSE IF c = "c2" THEN "p2" ELSE "p3"]

RequestOf(c) ==
  [patient_id |-> PatientOf[c], preferred_doctor |-> "D1", preferred_date |-> Monday,
   preferred_time |-> None, urgency_score |-> 2, medical_notes |-> "consultation"]

InterleaveOracles ==
  {[proba |-> pr, label |-> 0, raises |-> None] : pr \in {<<80, 20>>, <<50, 50>>}}

Frame(c) == calls.frames[c]
SetFrame(c, f) == calls' = [calls EXCEPT !.frames[c] = f]

\* steps 1 to 3: the oracle calls, assess_risk, _check_slot_availability
CallCheck(c, oracle) ==
  LET req == RequestOf(c)
      chk == check_slot_availability(TheS, req)
  IN  /\ Frame(c).pc = "idle"
      /\ SetFrame(c, [pc |-> "checked", req |-> req,
                      no_show_probability |-> predict_no_show_probability(oracle),
                      full_prediction |-> predict_with_full_output(oracle),
                      risk_level |-> assess_risk(thresholds,
                                                 predict_no_show_probability(oracle)),
                      slot_available |-> chk.slot_available,
                      optimal_slot |-> chk.optimal_slot])
      /\ UNCHANGED <<doctor_slots, doctor_order, slot_assignments, waitlist,
                     patient_records, contact_schedule, thresholds, config, now, last>>

\* step 4: get_scheduling_strategy, reading the slot's capacity as it is now
CallDecide(c) ==
  LET f == Frame(c)
      strategy == get_scheduling_strategy(
                    f.risk_level, f.slot_available,
                    IF f.optimal_slot # NoSlot
                    THEN get_available_capacity(SlotAt(doctor_slots, f.optimal_slot))
                    ELSE 0)
  IN  /\ f.pc = "checked"
      /\ SetFrame(c, [pc |-> "decided", req |-> f.req,
                      no_show_probability |-> f.no_show_probability,
                      full_prediction |-> f.full_prediction,
                      risk_level |-> f.risk_level,
                      optimal_slot |-> f.optimal_slot, strategy |-> strategy])
      /\ UNCHANGED <<doctor_slots, doctor_order, slot_assignments, waitlist,
                     patient_records, contact_schedule, thresholds, config, now, last>>

\* steps 5 and 5.5: _execute_scheduling_decision, then the ML details
CallExecute(c) ==
  LET f == Frame(c)
      x == execute_scheduling_decision(TheS, now, f.req, f.strategy, f.optimal_slot,
                                       f.no_show_probability)
      result == [ml_prediction |-> f.full_prediction.prediction,
                 no_show_probability |-> f.full_prediction.no_show_probability,
                 show_probability |-> f.full_prediction.show_probability,
                 risk_level |-> f.risk_level]
                @@ x.result
  IN  /\ f.pc = "decided"
      /\ SetS(x.S)
      /\ SetFrame(c, [pc |-> "executed", req |-> f.req,
                      no_show_probability |-> f.no_show_probability,
                      result |-> result])
      /\ UNCHANGED <<thresholds, config, now, last>>

\* steps 6 and 7, and the return
CallFinish(c) ==
  LET f == Frame(c)
      S6 == IF f.result.action = "waitlist"
            THEN add_to_waitlist(TheS, now, f.req, f.no_show_probability)
            ELSE TheS
      S7 == IF config.auto_optimize_schedule
            THEN [S6 EXCEPT !.ds = optimize_schedule(@)]
            ELSE S6
  IN  /\ f.pc = "executed"
      /\ SetS(S7)
      /\ SetFrame(c, [pc |-> "returned", result |-> f.result])
      /\ last' = [op |-> "AIAppointmentScheduler.schedule_appointment",
                  result |-> f.result]
      /\ UNCHANGED <<thresholds, config, now>>

InitInterleave == InitComponents /\ thresholds = DefaultThresholds

NextInterleave ==
  \/ \E dur \in DurationChoices, cap \in CapChoices :
       AddDoctorSchedule("D1", Monday, Monday, <<9, 10>>, dur, cap)
  \/ Ref("D1", 1) \in AllRefs(doctor_slots) /\ SOSchedule("p1", Ref("D1", 1), 0)
  \/ \E c \in Callers, oracle \in InterleaveOracles : CallCheck(c, oracle)
  \/ \E c \in Callers : CallDecide(c)
  \/ \E c \in Callers : CallExecute(c)
  \/ \E c \in Callers : CallFinish(c)

SpecInterleave == InitInterleave /\ [][NextInterleave]_vars

-----------------------------------------------------------------------------
(* SlotOptimizer.schedule_appointment run by several callers statement by    *)
(* statement: DoctorSlot.add_patient is a capacity check (line 37), an       *)
(* append (line 38), an increment that loads and then stores (line 39) and   *)
(* the buffer update (line 40); the tracking entry is written on return.     *)
(* With calls.critical the check-then-increment is a critical section: no    *)
(* caller runs the check while another is between its check and its store.   *)
(* Each caller makes one call.                                               *)

InSection == {"line38", "line39_load", "line39_store"}

\* a faulty variant of the critical section: anyone may enter
MayEnter_always(c) == TRUE

MayEnter(c) ==
  calls.critical => \A o \in Callers \ {c} : Frame(o).pc \notin InSection

RaceCall(c, r, b) ==
  /\ Frame(c).pc = "idle"
  /\ SetFrame(c, [pc |-> "line37", patient_id |-> PatientOf[c], slot |-> r,
                  buffer_time |-> b])
  /\ UNCHANGED <<doctor_slots, doctor_order, slot_assignments, waitlist,
                 patient_records, contact_schedule, thresholds, config, now, last>>

\* if self.current_capacity < self.max_capacity:  ... else return False
Line37(c) ==
  LET f == Frame(c)
      slot == SlotAt(doctor_slots, f.slot)
  IN  /\ f.pc = "line37"
      /\ MayEnter(c)
      /\ IF slot.current_capacity < slot.max_capacity
         THEN SetFrame(c, [f EXCEPT !.pc = "line38"])
         ELSE SetFrame(c, [pc |-> "returned", patient_id |-> f.patient_id,
                           slot |-> f.slot, ret |-> FALSE])
      /\ UNCHANGED <<doctor_slots, doctor_order, slot_assignments, waitlist,
                     patient_records, contact_schedule, thresholds, config, now, last>>

\* self.patients.append(patient_id)
Line38(c) ==
  LET f == Frame(c)
      slot == SlotAt(doctor_slots, f.slot)
  IN  /\ f.pc = "line38"
      /\ doctor_slots' = SetSlot(doctor_slots, f.slot,
                                 [slot EXCEPT !.patients = Append(@, f.patient_id)])
      /\ SetFrame(c, [f EXCEPT !.pc = "line39_load"])
      /\ UNCHANGED <<doctor_order, slot_assignments, waitlist, patient_records,
                     contact_schedule, thresholds, config, now, last>>

\* self.current_capacity += 1, the load
Line39Load(c) ==
  LET f == Frame(c)
  IN  /\ f.pc = "line39_load"
      /\ SetFrame(c, [pc |-> "line39_store", patient_id |-> f.patient_id,
                      slot |-> f.slot, buffer_time |-> f.buffer_time,
                      loaded |-> SlotAt(doctor_slots, f.slot).current_capacity])
      /\ UNCHANGED <<doctor_slots, doctor_order, slot_assignments, waitlist,
                     patient_records, contact_schedule, thresholds, config, now, last>>

\* self.current_capacity += 1, the store
Line39Store(c) ==
  LET f == Frame(c)
      slot == SlotAt(doctor_slots, f.slot)
  IN  /\ f.pc = "line39_store"
      /\ doctor_slots' = SetSlot(doctor_slots, f.slot,
                                 [slot EXCEPT !.current_capacity = f.loaded + 1])
      /\ SetFrame(c, [pc |-> "line40", patient_id |-> f.patient_id,
                      slot |-> f.slot, buffer_time |-> f.buffer_time])
      /\ UNCHANGED <<doctor_order, slot_assignments, waitlist, patient_records,
                     contact_schedule, thresholds, config, now, last>>

\* self.buffer_time = max(...); return True; then the tracking entry and return
Line40(c) ==
  LET f == Frame(c)
      slot == SlotAt(doctor_slots, f.slot)
  IN  /\ f.pc = "line40"
      /\ doctor_slots' = SetSlot(doctor_slots, f.slot,
                                 [slot EXCEPT !.buffer_time = Max(@, f.buffer_time)])
      /\ slot_assignments' = [slot_assignments EXCEPT ![f.patient_id] = f.slot]
      /\ SetFrame(c, [pc |-> "returned", patient_id |-> f.patient_id,
                      slot |-> f.slot, ret |-> TRUE])
      /\ UNCHANGED <<doctor_order, waitlist, patient_records, contact_schedule,
                     thresholds, config, now, last>>

InitRace ==
  /\ doctor_slots = [d \in Doctors |-> <<>>]
  /\ doctor_order = <<>>
  /\ slot_assignments = [p \in WaitlistPatients |-> NoSlot]
  /\ waitlist = <<>>
  /\ patient_records = {}
  /\ contact_schedule = [p \in WaitlistPatients |-> NoTime]
  /\ thresholds = DefaultThresholds
  /\ config = DefaultConfig
  /\ now = 0
  /\ last = NoCall
  /\ \E critical \in BOOLEAN : calls = [NoCalls EXCEPT !.critical = critical]

NextRace ==
  \/ \E dur \in DurationChoices, cap \in SchedCapChoices :
       AddDoctorSchedule("D1", Monday, Monday, <<9, 10>>, dur, cap)
  \/ \E c \in Callers, r \in AllRefs(doctor_slots), b \in BufferChoices : RaceCall(c, r, b)
  \/ \E c \in Callers : Line37(c)
  \/ \E c \in Callers : Line38(c)
  \/ \E c \in Callers : Line39Load(c)
  \/ \E c \in Callers : Line39Store(c)
  \/ \E c \in Callers : Line40(c)

SpecRace == InitRace /\ [][NextRace]_vars

-----------------------------------------------------------------------------
(* RiskAssessor driven directly: a pure component, checked over the          *)
(* threshold configurations and the inputs below.                           *)

ThresholdChoices ==
  {[low_threshold |-> l, medium_threshold |-> m, high_threshold |-> h] :
     l \in {30, 50}, m \in {60, 30}, h \in {80, 40, 100}}
ProbChoices == {0, 20, 30, 31, 50, 51, 60, 61, 80, 81, 100}
RiskLevels == {"low", "medium", "high"}
CapacityChoices == {0, 1, 2}

AssessRisk(p) ==
  /\ last' = [op |-> "assess_risk", p |-> p, ret |-> assess_risk(thresholds, p)]
  /\ UNCHANGED <<calls, doctor_slots, doctor_order, slot_assignments, waitlist, patient_records,
                 contact_schedule, thresholds, config, now>>

GetSchedulingStrategy(risk_level, slot_available, slot_capacity) ==
  /\ last' = [op |-> "get_scheduling_strategy", risk_level |-> risk_level,
              slot_available |-> slot_available, slot_capacity |-> slot_capacity,
              ret |-> get_scheduling_strategy(risk_level, slot_available, slot_capacity)]
  /\ UNCHANGED <<calls, doctor_slots, doctor_order, slot_assignments, waitlist, patient_records,
                 contact_schedule, thresholds, config, now>>

MaxWaiting == 9
UrgencyChoices == 1..5
WaitingChoices == 0..MaxWaiting

CalculateWaitlistPriority(p, urgency_score, waiting_time) ==
  /\ last' = [op |-> "calculate_waitlist_priority", p |-> p, urgency_score |-> urgency_score,
              waiting_time |-> waiting_time,
              priority |-> calculate_waitlist_priority(thresholds, p, urgency_score,
                                                       waiting_time)]
  /\ UNCHANGED <<calls, doctor_slots, doctor_order, slot_assignments, waitlist, patient_records,
                 contact_schedule, thresholds, config, now>>

InitRisk == InitComponents /\ thresholds \in ThresholdChoices

NextRisk ==
  \/ \E p \in ProbChoices : AssessRisk(p)
  \/ \E risk_level \in RiskLevels, slot_available \in BOOLEAN,
        slot_capacity \in CapacityChoices :
       GetSchedulingStrategy(risk_level, slot_available, slot_capacity)
  \/ \E p \in ProbChoices, urgency_score \in UrgencyChoices, waiting_time \in WaitingChoices :
       CalculateWaitlistPriority(p, urgency_score, waiting_time)

SpecRisk == InitRisk /\ [][NextRisk]_vars

-----------------------------------------------------------------------------
(* schedule_appointment with a post-step that may fail: optimize_schedule    *)
(* iterates over doctor_slots.items(), and raises when it cannot complete.   *)

FaultChoices ==
  {NoFault} \cup {[msg |-> "dictionary changed size during iteration", done |-> k] : k \in 0..1}

PostStepReqs == {req \in ReqChoices : req.preferred_date = Monday}

AIScheduleStep7(req, oracle, fault) ==
  LET x == schedule_appointment_step7(TheS, thresholds, config, now, req, oracle, fault)
  IN  /\ SetS(x.S)
      /\ last' = [op |-> "AIAppointmentScheduler.schedule_appointment",
                  result |-> x.result]
      /\ UNCHANGED <<calls, thresholds, config, now>>

InitPostStep == InitComponents /\ thresholds = DefaultThresholds

NextPostStep ==
  \/ \E dur \in DurationChoices, cap \in SchedCapChoices :
       AddDoctorSchedule("D1", Monday, Monday, <<9, 10>>, dur, cap)
  \/ \E req \in PostStepReqs, oracle \in OracleChoices, fault \in FaultChoices :
       AIScheduleStep7(req, oracle, fault)
  \/ \E p \in Patients : SOCancel(p)

SpecPostStep == InitPostStep /\ [][NextPostStep]_vars

-----------------------------------------------------------------------------
(* Cancellations handled by the scheduler, with patients waiting: bookings   *)
(* are made directly, a patient joins the waitlist only while not booked.    *)

HandleAppointmentCancellation(p) ==
  LET x == handle_appointment_cancellation(TheS, config, now, p)
  IN  /\ SetS(x.S)
      /\ last' = [op |-> "handle_appointment_cancellation", patient |-> p,
                  result |-> x.result]
      /\ UNCHANGED <<calls, thresholds, config, now>>

InitCancel == InitComponents /\ thresholds = DefaultThresholds

NextCancel ==
  \/ \E dur \in DurationChoices, cap \in SchedCapChoices :
       AddDoctorSchedule("D1", Monday, Monday, <<9, 10>>, dur, cap)
  \/ \E p \in Patients, r \in AllRefs(doctor_slots) :
       p \notin patient_records /\ SOSchedule(p, r, 0)
  \/ \E p \in WaitlistPatients, prob \in WaitProbChoices, pdoc \in {None, "D2"} :
       slot_assignments[p] = NoSlot /\ WLAdd(p, prob, 3, pdoc, NoTime)
  \/ \E value \in BOOLEAN : UpdateConfiguration("enable_waitlist_auto_fill", value)
  \/ \E p \in WaitlistPatients : HandleAppointmentCancellation(p)

SpecCancel == InitCancel /\ [][NextCancel]_vars

-----------------------------------------------------------------------------
(* The waitlist searched for the best patient of a free slot: entries with   *)
(* and without a preferred doctor and date, time passing between the calls.  *)

\* an entry's preferences: none, a date 7 or 8 days from the slots', a doctor
MatchPreferenceChoices ==
  {[doctor |-> None, date |-> NoTime], [doctor |-> None, date |-> At(7, 0, 0)],
   [doctor |-> None, date |-> At(8, 0, 0)], [doctor |-> "D2", date |-> NoTime]}
MatchSlotChoices ==
  {DoctorSlot("D1", At(0, 9, 0), At(0, 10, 0), 1), DoctorSlot("D2", At(0, 8, 0), At(0, 9, 0), 1)}

InitMatch == InitComponents /\ thresholds = DefaultThresholds

NextMatch ==
  \/ \E p \in WaitlistPatients, prob \in WaitProbChoices, pref \in MatchPreferenceChoices :
       WLAdd(p, prob, 3, pref.doctor, pref.date)
  \/ \E available_slot \in MatchSlotChoices : FindOptimalPatientForSlot(available_slot)
  \/ Tick

SpecMatch == InitMatch /\ [][NextMatch]_vars

-----------------------------------------------------------------------------
(* The best-slot search called directly: two doctors registered in either    *)
(* order, on different days and hours, with bookings that leave buffers.     *)

TimeBands == {None, "morning", "afternoon"}

FindOptimalSlot(preferred_doctor, preferred_date, preferred_time, risk_level, urgency_score) ==
  /\ last' = [op |-> "find_optimal_slot", preferred_doctor |-> preferred_doctor,
              preferred_date |-> preferred_date, preferred_time |-> preferred_time,
              risk_level |-> risk_level, urgency_score |-> urgency_score,
              found |-> find_optimal_slot(doctor_slots, doctor_order, preferred_doctor,
                                          preferred_date, preferred_time, risk_level,
                                          urgency_score)]
  /\ UNCHANGED <<calls, doctor_slots, doctor_order, slot_assignments, waitlist,
                 patient_records, contact_schedule, thresholds, config, now>>

InitFind == InitComponents /\ thresholds = DefaultThresholds

NextFind ==
  \/ \E dur \in DurationChoices, cap \in SchedCapChoices :
       AddDoctorSchedule("D1", Monday, Monday, <<9, 10>>, dur, cap)
  \/ \E cap \in SchedCapChoices :
       AddDoctorSchedule("D2", Tuesday, Tuesday, <<13, 14>>, 60, cap)
  \/ \E r \in AllRefs(doctor_slots), b \in BufferChoices : SOSchedule("p1", r, b)
  \/ \E preferred_doctor \in {None, "D2"}, preferred_date \in {NoTime, Monday, Tuesday},
        preferred_time \in TimeBands, risk_level \in RiskLevels :
       FindOptimalSlot(preferred_doctor, preferred_date, preferred_time, risk_level, 2)

SpecFind == InitFind /\ [][NextFind]_vars

-----------------------------------------------------------------------------
(* Entries ageing on the waitlist: the clock moves a day at a time, entries  *)
(* are added and refreshed, never updated or removed.                        *)

MaxAge == 9

DayPasses ==
  /\ now + MinutesPerDay <= MaxAge * MinutesPerDay
  /\ now' = now + MinutesPerDay
  /\ last' = [op |-> "tick"]
  /\ UNCHANGED <<calls, doctor_slots, doctor_order, slot_assignments, waitlist, patient_records,
                 contact_schedule, thresholds, config>>

InitAging == InitComponents /\ thresholds = DefaultThresholds

NextAging ==
  \/ \E p \in Patients, prob \in WaitProbChoices, u \in WaitUrgencyChoices :
       WLAdd(p, prob, u, None, NoTime)
  \/ GetTopPatients(1)
  \/ DayPasses

SpecAging == InitAging /\ [][NextAging]_vars

-----------------------------------------------------------------------------
(* Contact follow-up of waiting patients: attempts are recorded and the due  *)
(* contacts listed, a day passing at a time.                                 *)

MaxAttempts == 2
ContactProbChoices == {20, 50, 85}

AttemptsOf(p) ==
  IF \E i \in 1..Len(waitlist) : waitlist[i].patient_id = p
  THEN waitlist[CHOOSE i \in 1..Len(waitlist) : waitlist[i].patient_id = p].contact_attempts
  ELSE 0

RecordContactAttempt(p, success) ==
  LET x == record_contact_attempt(TheW, now, p, success)
  IN  /\ AttemptsOf(p) < MaxAttempts
      /\ SetW(x.W)
      /\ last' = [op |-> "record_contact_attempt", patient |-> p, success |-> success,
                  ret |-> x.ret]
      /\ UNCHANGED <<calls, doctor_slots, doctor_order, slot_assignments, thresholds, config, now>>

GetContactSchedule ==
  /\ last' = [op |-> "get_contact_schedule", due |-> get_contact_schedule(TheW, now)]
  /\ UNCHANGED <<calls, doctor_slots, doctor_order, slot_assignments, waitlist,
                 patient_records, contact_schedule, thresholds, config, now>>

InitContact == InitComponents /\ thresholds = DefaultThresholds

NextContact ==
  \/ \E prob \in ContactProbChoices : WLAdd("p1", prob, 3, None, NoTime)
  \/ WLAdd("p2", 85, 3, None, NoTime)
  \/ \E p \in Patients : WLRemove(p)
  \/ \E p \in {"p1", "p3"}, success \in BOOLEAN : RecordContactAttempt(p, success)
  \/ GetContactSchedule
  \/ DayPasses

SpecContact == InitContact /\ [][NextContact]_vars

-----------------------------------------------------------------------------
(* Schedules registered over date ranges around a weekend, given with and    *)
(* without a time of day, possibly twice for the same doctor; bookings and   *)
(* optimisation in between, and the availability asked per date.            *)

MaxRegistered == 2      \* slots of a doctor beyond which no schedule is added

Friday == At(4, 0, 0)
Saturday == At(5, 0, 0)
Sunday == At(6, 0, 0)
NextMonday == At(7, 0, 0)

\* the ranges registered, as <<start_date, end_date>>
RangeChoices ==
  {<<Friday, Friday>>, <<Saturday, Sunday>>, <<At(4, 10, 30), At(7, 10, 30)>>,
   <<At(4, 10, 30), NextMonday>>, <<NextMonday, Friday>>}

RegisterDurations == {30, 45}
RegisterCaps == {1, 3}

RegisterSchedule(d, start_date, end_date, working_hours, slot_duration, cap) ==
  LET a == add_doctor_schedule(doctor_slots, doctor_order, d, start_date, end_date,
                               working_hours, slot_duration, cap)
  IN  /\ Len(doctor_slots[d]) <= MaxRegistered
      /\ doctor_slots' = a.ds
      /\ doctor_order' = a.order
      /\ last' = [op |-> "add_doctor_schedule", doctor |-> d, start_date |-> start_date,
                  end_date |-> end_date, working_hours |-> working_hours,
                  slot_duration |-> slot_duration, max_capacity |-> cap]
      /\ UNCHANGED <<calls, slot_assignments, waitlist, patient_records, contact_schedule,
                     thresholds, config, now>>

GetDoctorAvailability(d, date) ==
  /\ last' = [op |-> "get_doctor_availability", doctor |-> d, date |-> date,
              available |-> get_doctor_availability(doctor_slots, doctor_order, d, date)]
  /\ UNCHANGED <<calls, doctor_slots, doctor_order, slot_assignments, waitlist,
                 patient_records, contact_schedule, thresholds, config, now>>

InitRegister == InitComponents /\ thresholds = DefaultThresholds

NextRegister ==
  \/ \E range \in RangeChoices, dur \in RegisterDurations, cap \in RegisterCaps :
       RegisterSchedule("D1", range[1], range[2], <<9, 10>>, dur, cap)
  \/ \E r \in AllRefs(doctor_slots) : SOSchedule("p1", r, 0)
  \/ Optimize
  \/ \E d \in Doctors, date \in {Friday, Saturday, At(7, 10, 30)} : GetDoctorAvailability(d, date)

SpecRegister == InitRegister /\ [][NextRegister]_vars

-----------------------------------------------------------------------------
(* The head of the waitlist asked for in any length, entries of three        *)
(* different priorities being added and removed.                             *)

TopCounts == 1..3

InitTop == InitComponents /\ thresholds = DefaultThresholds

NextTop ==
  \/ \E p \in WaitlistPatients, prob \in WaitProbChoices, u \in WaitUrgencyChoices :
       WLAdd(p, prob, u, None, NoTime)
  \/ \E p \in WaitlistPatients : WLRemove(p)
  \/ \E count \in TopCounts : GetTopPatients(count)

SpecTop == InitTop /\ [][NextTop]_vars

-----------------------------------------------------------------------------
(* Every operation on the waitlist in any order: patients join, leave, are  *)
(* re-prioritised and contacted, the head is read, a slot is matched and    *)
(* free slots are filled.                                                   *)

InitQueue == InitComponents /\ thresholds = DefaultThresholds

NextQueue ==
  \/ \E cap \in SchedCapChoices : AddDoctorSchedule("D1", Monday, Monday, <<9, 10>>, 60, cap)
  \/ \E p \in Patients, prob \in WaitProbChoices : WLAdd(p, prob, 3, None, NoTime)
  \/ \E p \in WaitlistPatients : WLRemove(p)
  \/ \E new_prob \in WaitProbChoices : WLUpdatePriority("p1", new_prob, NoNumber)
  \/ \E p \in {"p1", "p3"}, success \in BOOLEAN : RecordContactAttempt(p, success)
  \/ \E count \in 1..2 : GetTopPatients(count)
  \/ FindOptimalPatientForSlot(DoctorSlot("D1", At(0, 9, 0), At(0, 10, 0), 1))
  \/ ProcessWaitlistFill
  \/ Tick

SpecQueue == InitQueue /\ [][NextQueue]_vars

-----------------------------------------------------------------------------
(* A scheduler constructed with any of the threshold configurations, its    *)
(* waitlist used next to its RiskAssessor.                                  *)

TierProbChoices == {20, 40, 70, 85}

InitTier == InitComponents /\ thresholds \in ThresholdChoices

NextTier ==
  \/ \E p \in Patients, prob \in TierProbChoices, u \in WaitUrgencyChoices :
       WLAdd(p, prob, u, None, NoTime)
  \/ \E p \in Patients : WLRemove(p)
  \/ \E p \in Patients, success \in BOOLEAN : RecordContactAttempt(p, success)
  \/ FindOptimalPatientForSlot(DoctorSlot("D1", At(0, 9, 0), At(0, 10, 0), 1))
  \/ \E p \in TierProbChoices : AssessRisk(p)

SpecTier == InitTier /\ [][NextTier]_vars

-----------------------------------------------------------------------------
(* Claims about the SlotOptimizer, under SpecSlots *)

\* C1: in every reachable state every slot satisfies
\* 0 <= current_capacity <= max_capacity.
C1_CapacityWithinBounds ==
  \A r \in AllRefs(doctor_slots) :
    /\ 0 <= SlotAt(doctor_slots, r).current_capacity
    /\ SlotAt(doctor_slots, r).current_capacity <= SlotAt(doctor_slots, r).max_capacity

\* C2: in every reachable state every slot's patients list has exactly
\* current_capacity elements.
C2_PatientsMatchCapacity ==
  \A r \in AllRefs(doctor_slots) :
    Len(SlotAt(doctor_slots, r).patients) = SlotAt(doctor_slots, r).current_capacity

\* a patient booked twice has been cancelled once and still occupies a slot
C2_Witness ==
  /\ last.op = "cancel_appointment"
  /\ last.ret
  /\ \E r \in AllRefs(doctor_slots) : InSeq(last.patient, SlotAt(doctor_slots, r).patients)

OtherSlotsUnchanged(r) ==
  /\ AllRefs(doctor_slots') = AllRefs(doctor_slots)
  /\ \A q \in AllRefs(doctor_slots) \ {r} : SlotAt(doctor_slots', q) = SlotAt(doctor_slots, q)

SchedulePost(p, r, b) ==
  LET old == SlotAt(doctor_slots, r)
      new == SlotAt(doctor_slots', r)
  IN  /\ last'.ret = (old.current_capacity < old.max_capacity)
      /\ last'.ret =>
           /\ new.patients = old.patients \o <<p>>
           /\ new.current_capacity = old.current_capacity + 1
           /\ new.buffer_time = (IF old.buffer_time > b THEN old.buffer_time ELSE b)
           /\ new.max_capacity = old.max_capacity
           /\ new.start_time = old.start_time /\ new.end_time = old.end_time
           /\ slot_assignments'[p] = r
           /\ \A q \in Patients \ {p} : slot_assignments'[q] = slot_assignments[q]
           /\ OtherSlotsUnchanged(r)
      /\ ~last'.ret =>
           /\ doctor_slots' = doctor_slots
           /\ slot_assignments' = slot_assignments

\* C3: schedule_appointment(p, slot, b) returns true exactly when the slot has spare
\* capacity beforehand; on true it appends p, raises current_capacity by one, sets
\* buffer_time to max(old, b) and records p -> slot, every other slot unchanged; on
\* false no slot and no assignment changes.
C3_ScheduleContract ==
  [][\A p \in Patients, r \in AllRefs(doctor_slots), b \in BufferChoices :
       SOSchedule(p, r, b) => SchedulePost(p, r, b)]_vars

\* a booking has succeeded into a slot that holds an earlier, larger buffer
C3_Witness ==
  /\ last.op = "SlotOptimizer.schedule_appointment"
  /\ last.ret
  /\ \E r \in AllRefs(doctor_slots) :
       /\ Len(SlotAt(doctor_slots, r).patients) >= 2
       /\ SlotAt(doctor_slots, r).buffer_time = 15

\* C4: once cancel_appointment(p) has returned true, an immediately following
\* cancel_appointment(p) returns false and changes no slot and no assignment.
C4_CancelIdempotent ==
  [][\A p \in Patients :
       (last.op = "cancel_appointment" /\ last.patient = p /\ last.ret /\ SOCancel(p))
       => (/\ last'.ret = FALSE
           /\ doctor_slots' = doctor_slots
           /\ slot_assignments' = slot_assignments)]_vars

\* the second of two cancellations in a row has returned false, the patient
\* having been booked twice before
C4_Witness ==
  /\ last.op = "cancel_appointment"
  /\ last.again
  /\ ~last.ret
  /\ \E r \in AllRefs(doctor_slots) : InSeq(last.patient, SlotAt(doctor_slots, r).patients)

CancelPost(p) ==
  /\ last'.ret = (slot_assignments[p] # NoSlot)
  /\ last'.ret =>
       LET r == slot_assignments[p]
           old == SlotAt(doctor_slots, r)
           new == SlotAt(doctor_slots', r)
       IN  /\ new.current_capacity = old.current_capacity - 1
           /\ InSeq(p, old.patients)
           /\ new.patients = ListRemove(old.patients, p)
           /\ slot_assignments'[p] = NoSlot
           /\ OtherSlotsUnchanged(r)

\* C5: cancel_appointment(p) returns true exactly when p has a tracked assignment,
\* and then the tracked slot's current_capacity decreases by exactly one, p is
\* removed once from its patients and the tracking entry is deleted, every other
\* slot unchanged.
C5_CancelContract ==
  [][\A p \in Patients : SOCancel(p) => CancelPost(p)]_vars

-----------------------------------------------------------------------------
(* Claims about the RiskAssessor, under SpecRisk *)

Rank(risk_level) == IF risk_level = "low" THEN 1 ELSE IF risk_level = "medium" THEN 2 ELSE 3

\* C6: assess_risk(p) is LOW if p <= low_threshold, otherwise MEDIUM if
\* p <= medium_threshold, otherwise HIGH (so the two boundary values resolve to the
\* lower tier and high_threshold plays no part), and it is monotonic: of two calls
\* in a row, the one with the larger p never yields the lower tier.
C6_AssessRisk ==
  /\ [](last.op = "assess_risk" =>
          last.ret = (IF last.p <= thresholds.low_threshold THEN "low"
                      ELSE IF last.p <= thresholds.medium_threshold THEN "medium"
                      ELSE "high"))
  /\ [][(last.op = "assess_risk" /\ last'.op = "assess_risk" /\ last.p <= last'.p)
        => Rank(last.ret) <= Rank(last'.ret)]_vars

\* a probability equal to the low threshold, above a high threshold that lies
\* below it, has been assessed LOW
C6_Witness ==
  /\ last.op = "assess_risk"
  /\ last.p = thresholds.low_threshold
  /\ thresholds.high_threshold < last.p
  /\ last.ret = "low"

StrategyTable(risk_level, available) ==
  IF risk_level = "low"
  THEN (IF available THEN <<"confirm", 0, 0>> ELSE <<"reschedule", 0, 1>>)
  ELSE IF risk_level = "medium"
  THEN (IF available THEN <<"confirm_with_buffer", 15, 2>> ELSE <<"reschedule_optimal", 0, 3>>)
  ELSE (IF available THEN <<"confirm_with_extended_buffer", 30, 4>>
        ELSE <<"waitlist_high_priority", 0, 5>>)

\* C7: get_scheduling_strategy is the fixed 3x2 table over the risk tier and
\* "slot_available and slot_capacity > 0", with the buffers and waitlist
\* priorities of the table; requires_confirmation is false only for LOW.
C7_StrategyTable ==
  last.op = "get_scheduling_strategy" =>
    LET row == StrategyTable(last.risk_level, last.slot_available /\ last.slot_capacity > 0)
    IN  /\ last.ret.action = row[1]
        /\ last.ret.buffer_time = row[2]
        /\ last.ret.waitlist_priority = row[3]
        /\ last.ret.requires_confirmation = (last.risk_level # "low")
        /\ last.ret.risk_level = last.risk_level

\* a MEDIUM strategy was asked for a slot flagged available that has no capacity left
C7_Witness ==
  /\ last.op = "get_scheduling_strategy"
  /\ last.risk_level = "medium"
  /\ last.slot_available
  /\ last.slot_capacity = 0
  /\ last.ret.action = "reschedule_optimal"
  /\ last.ret.waitlist_priority = 3

-----------------------------------------------------------------------------
(* Claims about AIAppointmentScheduler.schedule_appointment, under SpecSched *)

Has(result, key) == key \in DOMAIN result

TierBuffer(risk_level) ==
  IF risk_level = "low" THEN 0 ELSE IF risk_level = "medium" THEN 15 ELSE 30

\* the free slots of the request's preferred doctor on its preferred date
PreferredFree(req) ==
  IF req.preferred_doctor # None /\ req.preferred_date # NoTime
     /\ req.preferred_doctor \in Registered(doctor_order)
  THEN SelectSeq([i \in 1..Len(doctor_slots[req.preferred_doctor]) |->
                    Ref(req.preferred_doctor, i)],
                 LAMBDA r : /\ DateOf(SlotAt(doctor_slots, r).start_time)
                               = DateOf(req.preferred_date)
                            /\ SlotAt(doctor_slots, r).current_capacity
                               < SlotAt(doctor_slots, r).max_capacity)
  ELSE <<>>

BookedInto(r, req, res, buffer) ==
  LET old == SlotAt(doctor_slots, r)
      new == SlotAt(doctor_slots', r)
  IN  /\ new.patients = old.patients \o <<req.patient_id>>
      /\ new.current_capacity = old.current_capacity + 1
      /\ new.buffer_time = (IF old.buffer_time > buffer THEN old.buffer_time ELSE buffer)
      /\ res.success = TRUE
      /\ Has(res, "doctor_id") /\ res.doctor_id = old.doctor_id
      /\ Has(res, "start_time") /\ res.start_time = old.start_time
      /\ Has(res, "end_time") /\ res.end_time = old.end_time

\* C8: whenever the preferred doctor has a slot with spare capacity on the
\* preferred date, schedule_appointment books the patient, of any risk tier, into
\* the first such slot with the tier's buffer time (0, 15 or 30) and returns
\* success=true with that slot's doctor id, start and end.
C8_PreferredSlotBooked ==
  [][\A req \in ReqChoices, oracle \in OracleChoices :
       (oracle.raises = None /\ PreferredFree(req) # <<>> /\ AISchedule(req, oracle))
       => BookedInto(PreferredFree(req)[1], req, last'.result,
                     TierBuffer(last'.result.risk_level))]_vars

\* C9: when the preferred doctor/date has no free slot but the fallback search
\* returns a slot, schedule_appointment books the patient into that slot and
\* returns success=true with rescheduled=true and the original preferences, for a
\* LOW-risk patient and for a MEDIUM-risk patient.
C9_FallbackSlotBooked ==
  [][\A req \in ReqChoices, oracle \in OracleChoices :
       LET fallback == find_optimal_slot(doctor_slots, doctor_order, req.preferred_doctor,
                                         req.preferred_date, req.preferred_time, "low", 1)
           res == last'.result
       IN  (/\ AISchedule(req, oracle)
            /\ oracle.raises = None
            /\ req.preferred_doctor # None /\ req.preferred_date # NoTime
            /\ PreferredFree(req) = <<>>
            /\ fallback # NoSlot
            /\ res.risk_level \in {"low", "medium"})
           => /\ BookedInto(fallback, req, res, 0)
              /\ Has(res, "rescheduled") /\ res.rescheduled = TRUE
              /\ Has(res, "original_preferences")
              /\ res.original_preferences = [doctor |-> req.preferred_doctor,
                                             date |-> req.preferred_date,
                                             time |-> req.preferred_time]]_vars

\* C10: when schedule_appointment derives the action waitlist_high_priority, the
\* patient is an entry of the waitlist when the call returns, carrying the
\* request's urgency, preferences and notes.
C10_HighRiskWaitlisted ==
  [][\A req \in ReqChoices, oracle \in OracleChoices :
       (/\ AISchedule(req, oracle)
        /\ oracle.raises = None
        /\ last'.result.action = "waitlist_high_priority")
       => \E i \in 1..Len(waitlist') :
            /\ waitlist'[i].patient_id = req.patient_id
            /\ waitlist'[i].urgency_score = req.urgency_score
            /\ waitlist'[i].preferred_doctor = req.preferred_doctor
            /\ waitlist'[i].preferred_date = req.preferred_date
            /\ waitlist'[i].medical_notes = req.medical_notes]_vars

NoSpareCapacity ==
  \A r \in AllRefs(doctor_slots) : ~is_available(SlotAt(doctor_slots, r))

OnWaitlist(wl, patient_id) == \E i \in 1..Len(wl) : wl[i].patient_id = patient_id

\* C11: when no slot has spare capacity for the request, schedule_appointment
\* places the patient on the waitlist, for every risk tier.
C11_NoSlotWaitlisted ==
  [][\A req \in ReqChoices, oracle \in OracleChoices :
       (NoSpareCapacity /\ oracle.raises = None /\ AISchedule(req, oracle))
       => OnWaitlist(waitlist', req.patient_id)]_vars

\* C12: if an ML oracle call of schedule_appointment raises, the call returns
\* success=false, action='error' and the error message, and the slot map, the
\* assignment map and the waitlist are exactly as before the call.
C12_OracleFailureClean ==
  [][\A req \in ReqChoices, oracle \in OracleChoices :
       (oracle.raises # None /\ AISchedule(req, oracle))
       => /\ last'.result.success = FALSE
          /\ last'.result.action = "error"
          /\ last'.result.error = oracle.raises
          /\ UNCHANGED <<doctor_slots, doctor_order, slot_assignments,
                         waitlist, patient_records, contact_schedule>>]_vars

C12_Witness ==
  /\ last.op = "AIAppointmentScheduler.schedule_appointment"
  /\ last.result.action = "error"
  /\ last.result.error = "Full prediction failed"
  /\ Occupancy(doctor_slots) > 0
  /\ \E r \in AllRefs(doctor_slots) : is_available(SlotAt(doctor_slots, r))

\* C13: every record returned by schedule_appointment, on every path including
\* the oracle-failure path, contains success, action, risk_level,
\* no_show_probability and show_probability, and contains either booking details
\* or an error string but never both.
C13_ResultShape ==
  last.op = "AIAppointmentScheduler.schedule_appointment"
  => /\ {"success", "action", "risk_level", "no_show_probability",
         "show_probability"} \subseteq DOMAIN last.result
     /\ Has(last.result, "slot_assigned") # Has(last.result, "error")

-----------------------------------------------------------------------------
(* Claims about the WaitlistManager, under SpecWaitlist *)

\* C14: get_top_patients(1) on a non-empty waitlist returns an entry whose
\* priority_score is the maximum over all entries; of two entries added at the
\* same time with probability 0.85 and urgencies 5 and 1, the urgency-5 entry has
\* the strictly higher score and is returned before the other.
C14_TopIsMaximum ==
  (last.op = "get_top_patients" /\ waitlist # <<>>)
  => /\ Len(last.top) = 1
     /\ OnWaitlist(waitlist, last.top[1].patient_id)
     /\ \A i \in 1..Len(waitlist) :
          /\ waitlist[i].priority_score <= last.top[1].priority_score
          /\ waitlist[i].patient_id = last.top[1].patient_id => waitlist[i] = last.top[1]
     /\ \A i, j \in 1..Len(waitlist) :
          (/\ waitlist[i].entry_date = waitlist[j].entry_date
           /\ waitlist[i].no_show_probability = 85 /\ waitlist[j].no_show_probability = 85
           /\ waitlist[i].urgency_score = 5 /\ waitlist[j].urgency_score = 1)
          => /\ waitlist[i].priority_score > waitlist[j].priority_score
             /\ last.top[1] # waitlist[j]

C14_Witness ==
  /\ last.op = "get_top_patients"
  /\ Len(waitlist) = 3
  /\ now = MaxDay * MinutesPerDay
  /\ \E i, j \in 1..3 :
       /\ waitlist[i].entry_date = waitlist[j].entry_date
       /\ waitlist[i].no_show_probability = 85 /\ waitlist[j].no_show_probability = 85
       /\ waitlist[i].urgency_score = 5 /\ waitlist[j].urgency_score = 1
  /\ \E i \in 1..3 : waitlist[i].entry_date # waitlist[1].entry_date
  /\ \E i \in 1..3 : waitlist[i].priority_score < last.top[1].priority_score

Entries(wl) == {wl[i] : i \in 1..Len(wl)}

\* the priority of a new entry: no waiting bonus
InitialPriority(prob, urgency) ==
  LET base == IF prob <= 30 THEN 1 ELSE IF prob <= 60 THEN 3 ELSE 5
      bonus == IF prob <= 30 THEN 0 ELSE IF prob <= 60 THEN 1 ELSE 2
      tenths == base * urgency * 2 + bonus * 10
  IN  Max(1, Min(tenths \div 10, 10))

AddPost(p, prob, urgency) ==
  IF p \in patient_records
  THEN /\ last'.ret = FALSE
       /\ UNCHANGED <<waitlist, patient_records, contact_schedule>>
  ELSE /\ last'.ret = TRUE
       /\ Len(waitlist') = Len(waitlist) + 1
       /\ patient_records' = patient_records \cup {p}
       /\ \E e \in Entries(waitlist') :
            /\ Entries(waitlist') = Entries(waitlist) \cup {e}
            /\ e \notin Entries(waitlist)
            /\ e.patient_id = p
            /\ e.no_show_probability = prob /\ e.urgency_score = urgency
            /\ e.entry_date = now /\ e.waiting_days = 0
            /\ e.priority_score = InitialPriority(prob, urgency)
       /\ contact_schedule' = [contact_schedule EXCEPT ![p] = now + MinutesPerDay]

PriorityOf(prob, urgency, waiting_days) ==
  LET tier == Rank(assess_risk(DefaultThresholds, prob))
      base == 2 * tier - 1
      bonus == tier - 1
      tenths == 2 * base * urgency + 5 * Min(waiting_days, 7) + 10 * bonus
  IN  IF tenths \div 10 < 1 THEN 1 ELSE IF tenths \div 10 > 10 THEN 10 ELSE tenths \div 10

\* C25: after every WaitlistManager operation each entry's priority_score is an
\* integer in 1..10 and equals the priority function of the entry's current
\* no-show probability, urgency and stored waiting_days.
C25_PriorityCurrent ==
  \A i \in 1..Len(waitlist) :
    /\ waitlist[i].priority_score \in 1..10
    /\ waitlist[i].priority_score =
         PriorityOf(waitlist[i].no_show_probability, waitlist[i].urgency_score,
                    waitlist[i].waiting_days)

\* the probability of an entry that has waited for days has just been changed,
\* with another entry on the list
C25_Witness ==
  /\ last.op = "update_patient_priority"
  /\ last.ret
  /\ Len(waitlist) >= 2
  /\ \E i \in 1..Len(waitlist) :
       /\ waitlist[i].patient_id = "p1"
       /\ waitlist[i].waiting_days > 0
       /\ waitlist[i].no_show_probability = 85
       /\ waitlist[i].priority_score > 1

-----------------------------------------------------------------------------
(* Claims about RiskAssessor.calculate_waitlist_priority, under SpecRisk *)

\* C15: calculate_waitlist_priority returns an integer in [1,10] for every
\* probability in [0,1], every urgency in 1..5 and every waiting time >= 0.
C15_PriorityBounded ==
  last.op = "calculate_waitlist_priority" => last.priority \in 1..10

C15_Witness ==
  /\ last.op = "calculate_waitlist_priority"
  /\ last.p <= thresholds.low_threshold
  /\ last.urgency_score = 1
  /\ last.waiting_time = 0
  /\ last.priority = 1

\* the integers nearest to tenths / 10 (two of them at a tie)
Nearest(tenths) ==
  {n \in 0..(tenths \div 10 + 1) :
     \A k \in 0..(tenths \div 10 + 1) : Abs(10 * n - tenths) <= Abs(10 * k - tenths)}

\* C16: calculate_waitlist_priority(p, u, w) equals
\* clamp(round(risk_base[tier(p)] * (u/5) + min(w,7) * 0.5), 1, 10) with risk_base
\* LOW=1, MEDIUM=3, HIGH=5, round being rounding to the nearest integer.
C16_PriorityFormula ==
  last.op = "calculate_waitlist_priority"
  => LET risk_base == IF last.p <= thresholds.low_threshold THEN 1
                      ELSE IF last.p <= thresholds.medium_threshold THEN 3 ELSE 5
         tenths == 2 * risk_base * last.urgency_score
                   + 5 * (IF last.waiting_time < 7 THEN last.waiting_time ELSE 7)
     IN  \E n \in Nearest(tenths) :
           last.priority = (IF n < 1 THEN 1 ELSE IF n > 10 THEN 10 ELSE n)

-----------------------------------------------------------------------------
(* Claims about process_waitlist_fill, under SpecFill *)

\* how many slots received patient p as their one new patient
Gained(p) ==
  Cardinality({r \in AllRefs(doctor_slots) :
                 SlotAt(doctor_slots', r).patients
                 = Append(SlotAt(doctor_slots, r).patients, p)})

FreeInVisitOrder ==
  SelectSeq(VisitOrder(doctor_slots, doctor_order, 1),
            LAMBDA r : is_available(SlotAt(doctor_slots, r)))

FillPost ==
  IF ~config.enable_waitlist_auto_fill
  THEN /\ last'.ret = FALSE
       /\ UNCHANGED <<doctor_slots, doctor_order, slot_assignments, waitlist,
                      patient_records, contact_schedule>>
  ELSE /\ last'.ret = TRUE
       /\ Len(waitlist') = Len(waitlist) - last'.filled_slots
       /\ Occupancy(doctor_slots') = Occupancy(doctor_slots) + last'.filled_slots
       /\ \A r \in AllRefs(doctor_slots) :
            \/ SlotAt(doctor_slots', r).patients = SlotAt(doctor_slots, r).patients
            \/ \E p \in patient_records :
                 SlotAt(doctor_slots', r).patients
                 = Append(SlotAt(doctor_slots, r).patients, p)
       /\ \A p \in WaitlistPatients : Gained(p) <= 1
       /\ {p \in WaitlistPatients : Gained(p) = 1} = patient_records \ patient_records'
       /\ \A p \in patient_records' : OnWaitlist(waitlist', p)
       /\ FreeInVisitOrder # <<>> =>
            LET r == FreeInVisitOrder[1]
                slot == SlotAt(doctor_slots, r)
                f == find_optimal_patient_for_slot(TheW, now, slot, r[1], slot.start_time)
            IN  IF f.ret = None
                THEN SlotAt(doctor_slots', r).patients = slot.patients
                ELSE SlotAt(doctor_slots', r).patients = Append(slot.patients, f.ret)

\* C18: process_waitlist_fill visits the slots doctor by doctor in map order
\* and in slot-list order, books into each slot with spare capacity the entry
\* find_optimal_patient_for_slot returns and removes it from the waitlist: the
\* waitlist shrinks by exactly filled_slots, the occupancy grows by exactly
\* filled_slots, no patient is booked into more than one slot by the pass, and
\* with auto-fill disabled nothing changes.
C18_WaitlistFill ==
  [][ProcessWaitlistFill => FillPost]_vars

C18_Witness ==
  /\ last.op = "process_waitlist_fill"
  /\ last.filled_slots >= 2
  /\ waitlist # <<>>
  /\ doctor_order = <<"D2", "D1">>
  /\ \E r \in AllRefs(doctor_slots) : is_available(SlotAt(doctor_slots, r))

-----------------------------------------------------------------------------
(* Claims about interleaved schedule_appointment calls, under SpecInterleave *)

\* the slot a caller is about to book refuses the booking
Refused(c) ==
  /\ Frame(c).strategy.action \in {"confirm", "confirm_with_buffer", "reschedule"}
  /\ Frame(c).optimal_slot # NoSlot
  /\ ~is_available(SlotAt(doctor_slots, Frame(c).optimal_slot))

\* C19: when schedule_appointment calls interleave between the availability
\* check and the booking, and each SlotOptimizer booking is atomic, no slot's
\* current_capacity exceeds its max_capacity, and a call whose booking is
\* refused returns success=false with an error string and no booking details.
C19_InterleavedCallsSafe ==
  /\ [](\A r \in AllRefs(doctor_slots) :
          SlotAt(doctor_slots, r).current_capacity <= SlotAt(doctor_slots, r).max_capacity)
  /\ [][\A c \in Callers :
          (Frame(c).pc = "decided" /\ Refused(c) /\ CallExecute(c))
          => /\ calls'.frames[c].result.success = FALSE
             /\ Has(calls'.frames[c].result, "error")
             /\ ~Has(calls'.frames[c].result, "slot_assigned")
             /\ doctor_slots' = doctor_slots]_vars

-----------------------------------------------------------------------------
(* Claims about unsynchronised bookings, under SpecRace *)

\* C20: DoctorSlot.add_patient is a check followed by an append and an
\* increment; the capacity bound holds under concurrency when the
\* check-then-increment is a critical section, and without mutual exclusion two
\* callers interleaving on a slot with one free place can both succeed, leaving
\* current_capacity above max_capacity.
C20_BoundNeedsCriticalSection ==
  calls.critical
  => \A r \in AllRefs(doctor_slots) :
       /\ SlotAt(doctor_slots, r).current_capacity <= SlotAt(doctor_slots, r).max_capacity
       /\ Len(SlotAt(doctor_slots, r).patients) <= SlotAt(doctor_slots, r).max_capacity

C20_Witness ==
  /\ ~calls.critical
  /\ \E r \in AllRefs(doctor_slots) :
       /\ SlotAt(doctor_slots, r).max_capacity = 1
       /\ SlotAt(doctor_slots, r).current_capacity = 2
       /\ Len(SlotAt(doctor_slots, r).patients) = 2
       /\ \E c1, c2 \in Callers :
            /\ c1 # c2
            /\ Frame(c1).pc = "returned" /\ Frame(c1).slot = r /\ Frame(c1).ret = TRUE
            /\ Frame(c2).pc = "returned" /\ Frame(c2).slot = r /\ Frame(c2).ret = TRUE
       /\ \A c \in Callers : Frame(c).pc = "returned" /\ Frame(c).slot = r => Frame(c).ret

-----------------------------------------------------------------------------
(* Claims about the post-step of schedule_appointment, under SpecPostStep *)

\* C21: if optimize_schedule raises in step 7 of schedule_appointment, the call
\* still returns the record of the decision executed in step 5 (same success
\* flag, action and booking details), not an error record.
C21_PostStepFailureTolerated ==
  [][\A req \in PostStepReqs, oracle \in OracleChoices, fault \in FaultChoices :
       (/\ fault.msg # None /\ oracle.raises = None /\ config.auto_optimize_schedule
        /\ AIScheduleStep7(req, oracle, fault))
       => /\ last'.result.action # "error"
          /\ last'.result =
               schedule_appointment_steps(TheS, thresholds, config, now, req, oracle).result]_vars

-----------------------------------------------------------------------------
(* Claims about handle_appointment_cancellation, under SpecCancel *)

\* a waiting entry that may take a place of slot r
Compatible(e, r) == Suitable(e, r[1], SlotAt(doctor_slots, r).start_time)

\* C22: when handle_appointment_cancellation frees a place in a slot while
\* auto-fill is enabled and a waiting patient compatible with that slot is on
\* the waitlist, the freed place is given to a waiting patient, who is removed
\* from the waitlist, as part of handling the cancellation.
C22_CancellationFillsFromWaitlist ==
  [][\A p \in WaitlistPatients :
       (/\ config.enable_waitlist_auto_fill
        /\ slot_assignments[p] # NoSlot
        /\ \E i \in 1..Len(waitlist) : Compatible(waitlist[i], slot_assignments[p])
        /\ HandleAppointmentCancellation(p))
       => \E q \in patient_records :
            /\ q \notin patient_records'
            /\ ~OnWaitlist(waitlist', q)
            /\ slot_assignments'[q] = slot_assignments[p]
            /\ InSeq(q, SlotAt(doctor_slots', slot_assignments[p]).patients)]_vars

-----------------------------------------------------------------------------
(* Claims about find_optimal_patient_for_slot, under SpecMatch *)

DayDistance(t1, t2) == Abs(DateOf(t1) - DateOf(t2))

Eligible(e, doctor_id, slot_date) ==
  /\ e.preferred_doctor = None \/ e.preferred_doctor = doctor_id
  /\ e.preferred_date = NoTime \/ DayDistance(slot_date, e.preferred_date) <= 7

MatchScore(e, slot) ==
  2 * e.priority_score
  + (IF e.preferred_date = NoTime THEN 0
     ELSE Max(0, 10 - DayDistance(slot.start_time, e.preferred_date)))
  + (IF HourOf(slot.start_time) \in 9..20 THEN 3 ELSE 0)
  + (CASE Rank(assess_risk(DefaultThresholds, e.no_show_probability)) = 3 -> 5
       [] Rank(assess_risk(DefaultThresholds, e.no_show_probability)) = 2 -> 3
       [] OTHER -> 0)

\* the entry's waiting days and priority are those of the current time
Refreshed(e) ==
  /\ e.waiting_days = (now - e.entry_date) \div MinutesPerDay
  /\ e.priority_score = calculate_priority_score(e).priority_score

EligibleAt(slot) ==
  {i \in 1..Len(waitlist) : Eligible(waitlist[i], slot.doctor_id, slot.start_time)}

\* C23: find_optimal_patient_for_slot refreshes every entry's waiting_days and
\* priority to the current time, returns none exactly when no entry is
\* eligible (preferred doctor unset or the slot's, preferred date unset or at
\* most 7 days from the slot date), and otherwise returns the first-encountered
\* eligible entry of maximal match score.
C23_BestPatientForSlot ==
  last.op = "find_optimal_patient_for_slot"
  => /\ \A i \in 1..Len(waitlist) : Refreshed(waitlist[i])
     /\ (last.found = None) <=> (EligibleAt(last.slot) = {})
     /\ last.found # None
        => \E i \in EligibleAt(last.slot) :
             /\ waitlist[i].patient_id = last.found
             /\ \A j \in EligibleAt(last.slot) :
                  /\ MatchScore(waitlist[j], last.slot) <= MatchScore(waitlist[i], last.slot)
                  /\ j < i => MatchScore(waitlist[j], last.slot) < MatchScore(waitlist[i], last.slot)

\* a patient is found among several eligible ones, two of them of the same
\* maximal score, with an ineligible entry on the list and after days of waiting
C23_Witness ==
  /\ last.op = "find_optimal_patient_for_slot"
  /\ last.found # None
  /\ Len(waitlist) = 3
  /\ Cardinality(EligibleAt(last.slot)) = 2
  /\ \A i, j \in EligibleAt(last.slot) :
       MatchScore(waitlist[i], last.slot) = MatchScore(waitlist[j], last.slot)
  /\ \E i \in 1..Len(waitlist) : waitlist[i].waiting_days > 0

-----------------------------------------------------------------------------
(* Claims about find_optimal_slot, under SpecFind *)

\* the slots find_optimal_slot may return for the recorded call
Candidates ==
  {r \in AllRefs(doctor_slots) :
     /\ is_available(SlotAt(doctor_slots, r))
     /\ last.preferred_doctor = None \/ r[1] = last.preferred_doctor}

\* twenty times the score of a slot for the recorded call
SlotScore(r) ==
  LET slot == SlotAt(doctor_slots, r)
      hour == HourOf(slot.start_time)
      band == IF hour \in 9..12 THEN "morning"
              ELSE IF hour \in 13..17 THEN "afternoon"
              ELSE IF hour \in 18..20 THEN "evening" ELSE "night"
  IN  (IF last.preferred_date = NoTime THEN 0
       ELSE 20 * Max(0, 10 - DayDistance(slot.start_time, last.preferred_date)))
      + (IF last.preferred_time = band THEN 5 * 20 ELSE 0)
      + slot.buffer_time * (Rank(last.risk_level) - 1)
      + 2 * 20 * last.urgency_score
      + 10 * (slot.max_capacity - slot.current_capacity)

DoctorPosition(d) == CHOOSE k \in 1..Len(doctor_order) : doctor_order[k] = d

ScannedBefore(r1, r2) ==
  \/ DoctorPosition(r1[1]) < DoctorPosition(r2[1])
  \/ r1[1] = r2[1] /\ r1[2] < r2[2]

\* C24: find_optimal_slot returns none exactly when no slot with spare capacity
\* exists (among the preferred doctor's slots if one is given, among all
\* otherwise); otherwise it returns a slot with spare capacity of maximal score,
\* and among equally scored slots the first in scan order.
C24_BestSlot ==
  last.op = "find_optimal_slot"
  => /\ (last.found = NoSlot) <=> (Candidates = {})
     /\ last.found # NoSlot
        => /\ last.found \in Candidates
           /\ \A r \in Candidates :
                /\ SlotScore(r) <= SlotScore(last.found)
                /\ SlotScore(r) = SlotScore(last.found) => ~ScannedBefore(r, last.found)

\* a slot found among candidates of two doctors, one of them partly booked with
\* a buffer, with another candidate of the same score scanned later
C24_Witness ==
  /\ last.op = "find_optimal_slot"
  /\ last.found # NoSlot
  /\ last.risk_level = "high"
  /\ \E r \in Candidates : r # last.found /\ SlotScore(r) = SlotScore(last.found)
  /\ \E r \in Candidates : r[1] # last.found[1]
  /\ \E r \in Candidates : SlotAt(doctor_slots, r).buffer_time > 0
  /\ \E r \in AllRefs(doctor_slots) : r \notin Candidates

-----------------------------------------------------------------------------
(* Claims about ageing entries, under SpecAging *)

\* C26: for a waiting entry whose probability and urgency are not updated, the
\* priority_score obtained at successive refreshes never decreases as time
\* passes, and is the same at every refresh made 7 or more days after the
\* entry date.
C26_PriorityAges ==
  [][\A i \in 1..Len(waitlist), j \in 1..Len(waitlist') :
       (/\ waitlist'[j].patient_id = waitlist[i].patient_id
        /\ waitlist'[j].entry_date = waitlist[i].entry_date)
       => /\ waitlist'[j].priority_score >= waitlist[i].priority_score
          /\ waitlist[i].waiting_days >= 7
             => waitlist'[j].priority_score = waitlist[i].priority_score]_vars

\* an entry refreshed 9 days after its entry, whose score has risen since it
\* was added, beside an entry that has waited less than 7 days
C26_Witness ==
  /\ last.op = "get_top_patients"
  /\ \E i \in 1..Len(waitlist) :
       /\ waitlist[i].waiting_days = 9
       /\ waitlist[i].priority_score > PriorityOf(waitlist[i].no_show_probability,
                                                   waitlist[i].urgency_score, 0)
  /\ \E i \in 1..Len(waitlist) : waitlist[i].waiting_days \in 1..6

-----------------------------------------------------------------------------
(* Claims about contact follow-up, under SpecContact *)

EntryOf(wl, p) == wl[CHOOSE i \in 1..Len(wl) : wl[i].patient_id = p]

\* days until the next contact after an attempt
ContactDelay(prob, success) ==
  IF ~success THEN 1
  ELSE CASE Rank(assess_risk(DefaultThresholds, prob)) = 3 -> 1
         [] Rank(assess_risk(DefaultThresholds, prob)) = 2 -> 3
         [] OTHER -> 7

AttemptPost(p, success) ==
  IF p \notin patient_records
  THEN /\ last'.ret = FALSE
       /\ UNCHANGED <<waitlist, patient_records, contact_schedule>>
  ELSE /\ last'.ret = TRUE
       /\ patient_records' = patient_records
       /\ EntryOf(waitlist', p).contact_attempts = EntryOf(waitlist, p).contact_attempts + 1
       /\ contact_schedule'[p] =
            now + ContactDelay(EntryOf(waitlist, p).no_show_probability, success) * MinutesPerDay
       /\ \A q \in WaitlistPatients \ {p} : contact_schedule'[q] = contact_schedule[q]

\* C27: record_contact_attempt returns false and changes nothing for an absent
\* patient; for a present patient it raises contact_attempts by one and sets
\* the next contact to now plus 1 day after a failed attempt, or plus 1, 3 or 7
\* days after a successful one for a HIGH, MEDIUM or LOW risk patient; that
\* time stays until the next attempt or removal, and get_contact_schedule lists
\* the patient exactly from the moment it is reached.
C27_ContactFollowUp ==
  [][/\ \A p \in WaitlistPatients, success \in BOOLEAN :
          (AttemptsOf(p) < MaxAttempts /\ RecordContactAttempt(p, success))
          => AttemptPost(p, success)
     /\ \A p \in WaitlistPatients :
          (/\ p \in patient_records /\ p \in patient_records'
           /\ last'.op # "record_contact_attempt")
          => contact_schedule'[p] = contact_schedule[p]
     /\ last'.op = "get_contact_schedule"
        => \A p \in WaitlistPatients :
             /\ p \in DOMAIN last'.due
                <=> (p \in patient_records' /\ now' >= contact_schedule'[p])
             /\ p \in DOMAIN last'.due => last'.due[p] = contact_schedule'[p]]_vars

\* a LOW risk patient reached with success is listed again exactly 7 days later,
\* while another patient, added since, is not yet due
C27_Witness ==
  /\ last.op = "get_contact_schedule"
  /\ "p1" \in DOMAIN last.due
  /\ "p1" \in patient_records
  /\ EntryOf(waitlist, "p1").contact_attempts = 1
  /\ EntryOf(waitlist, "p1").no_show_probability = 20
  /\ contact_schedule["p1"] = EntryOf(waitlist, "p1").last_contact_date + 7 * MinutesPerDay
  /\ now = contact_schedule["p1"]
  /\ "p2" \in patient_records
  /\ "p2" \notin DOMAIN last.due

-----------------------------------------------------------------------------
(* Claims about registered schedules and availability, under SpecRegister *)

TimeOfDay(t) == t % MinutesPerDay

\* the slots a call has appended to list `after`, `before` being the list before
Added(before, after) == SubSeq(after, Len(before) + 1, Len(after))

RegisterPost(d, start_date, end_date, working_hours, slot_duration, cap) ==
  LET added == Added(doctor_slots[d], doctor_slots'[d])
      days == DateOf(start_date)..DateOf(end_date)
      first(i) == i = 1 \/ DateOf(added[i - 1].start_time) # DateOf(added[i].start_time)
  IN  /\ SubSeq(doctor_slots'[d], 1, Len(doctor_slots[d])) = doctor_slots[d]
      /\ \A i \in 1..Len(added) :
           /\ DateOf(added[i].start_time) \in days
           /\ DateOf(added[i].start_time) % 7 \in 0..4
           /\ added[i].end_time = added[i].start_time + slot_duration
           /\ IF first(i)
              THEN /\ added[i].start_time = At(DateOf(added[i].start_time), working_hours[1], 0)
                   /\ i > 1 => DateOf(added[i - 1].start_time) < DateOf(added[i].start_time)
              ELSE added[i].start_time = added[i - 1].end_time
      /\ (\A day \in days : day % 7 \in {5, 6}) => added = <<>>
      /\ (TimeOfDay(start_date) <= TimeOfDay(end_date) /\ working_hours[1] < working_hours[2])
         => \A day \in days :
              day % 7 \in 0..4 => \E i \in 1..Len(added) : DateOf(added[i].start_time) = day

\* C28: add_doctor_schedule creates slots only on Monday to Friday dates of
\* [start_date, end_date]; on each such date the slots start at start_hour and
\* follow each other without gap, each slot_duration minutes long; no slot is
\* created on a Saturday or Sunday, and a weekend-only range adds zero slots.
C28_WeekdaySlotsOnly ==
  [][\A range \in RangeChoices, dur \in RegisterDurations, cap \in RegisterCaps :
       RegisterSchedule("D1", range[1], range[2], <<9, 10>>, dur, cap)
       => RegisterPost("D1", range[1], range[2], <<9, 10>>, dur, cap)]_vars

\* a range from a Friday to the Monday after it has been registered, in slots
\* of 45 minutes, after an earlier registration: slots on both days, none on
\* the weekend between
C28_Witness ==
  /\ last.op = "add_doctor_schedule"
  /\ last.start_date = At(4, 10, 30) /\ last.end_date = At(7, 10, 30)
  /\ last.slot_duration = 45
  /\ Len(doctor_slots["D1"]) = 6
  /\ DateOf(doctor_slots["D1"][3].start_time) = 4
  /\ DateOf(doctor_slots["D1"][6].start_time) = 7


\* C29: in every reachable state get_doctor_availability(doctor, date) returns
\* exactly the doctor's slots that start on that calendar date and have spare
\* capacity, ordered by non-decreasing start time, and the empty list for an
\* unknown doctor.
C29_AvailabilityChronological ==
  last.op = "get_doctor_availability"
  => LET ret == last.available
         d == last.doctor
     IN  /\ d \notin Registered(doctor_order) => ret = <<>>
         /\ {ret[i] : i \in 1..Len(ret)} =
              {r \in AllRefs(doctor_slots) :
                 /\ r[1] = d
                 /\ DateOf(SlotAt(doctor_slots, r).start_time) = DateOf(last.date)
                 /\ SlotAt(doctor_slots, r).current_capacity
                      < SlotAt(doctor_slots, r).max_capacity}
         /\ \A i, j \in 1..Len(ret) : i # j => ret[i] # ret[j]
         /\ \A i \in 1..(Len(ret) - 1) :
              SlotAt(doctor_slots, ret[i]).start_time
                <= SlotAt(doctor_slots, ret[i + 1]).start_time

-----------------------------------------------------------------------------
(* Claims about slot buffers, under SpecSlots *)

\* C30: in every reachable state each slot's buffer_time equals the largest
\* buffer requested in the bookings of the patients currently assigned to it,
\* and is 0 when the slot has no occupant, also after cancellations and
\* reschedules.  (Of a slot with occupants the state keeps the buffer but not
\* the requests: a booking must raise it to the larger of the two, and a slot
\* left without occupant must be back at 0.)
C30_BufferOfOccupants ==
  [][/\ \A p \in Patients, r \in AllRefs(doctor_slots), b \in BufferChoices :
          (SOSchedule(p, r, b) /\ last'.ret)
          => SlotAt(doctor_slots', r).buffer_time
               = Max(SlotAt(doctor_slots, r).buffer_time, b)
     /\ \A r \in AllRefs(doctor_slots') :
          SlotAt(doctor_slots', r).patients = <<>>
          => SlotAt(doctor_slots', r).buffer_time = 0]_vars

-----------------------------------------------------------------------------
(* Claims about the head of the waitlist, under SpecTop *)

\* C31: for every n >= 1 and every waitlist state, get_top_patients(n) returns
\* the min(n, size) entries with the highest priority_score, in non-increasing
\* order of priority_score.
C31_TopNSorted ==
  last.op = "get_top_patients"
  => LET top == last.top
         ids == {top[i].patient_id : i \in 1..Len(top)}
     IN  /\ Len(top) = Min(last.count, Len(waitlist))
         /\ Cardinality(ids) = Len(top)
         /\ \A i \in 1..Len(top) : \E k \in 1..Len(waitlist) : waitlist[k] = top[i]
         /\ \A i \in 1..(Len(top) - 1) : top[i].priority_score >= top[i + 1].priority_score
         /\ \A i \in 1..Len(top), k \in 1..Len(waitlist) :
              waitlist[k].patient_id \notin ids
              => waitlist[k].priority_score <= top[i].priority_score

-----------------------------------------------------------------------------
(* Claims about optimize_schedule, under SpecRegister *)

\* slot i of list `slots` is not full and the next slot of the list starts
\* where it ends and has no occupant
Absorbs(slots, i) ==
  /\ i < Len(slots)
  /\ slots[i].current_capacity < slots[i].max_capacity
  /\ slots[i].end_time = slots[i + 1].start_time
  /\ slots[i + 1].patients = <<>> /\ slots[i + 1].current_capacity = 0

\* C32: optimize_schedule changes only the end_time and max_capacity of
\* predecessor slots that are not full and are immediately followed, at a
\* matching boundary time, by a slot with no occupant: end_time becomes the
\* follower's end and max_capacity min(max_capacity + 1, 3).  It never changes
\* a slot's patients, current_capacity or buffer_time, the number or order of
\* the slots, or the assignment map.
C32_OptimizeFrame ==
  [][Optimize
     => /\ UNCHANGED <<slot_assignments, doctor_order>>
        /\ \A d \in Doctors :
             /\ Len(doctor_slots'[d]) = Len(doctor_slots[d])
             /\ \A i \in 1..Len(doctor_slots[d]) :
                  LET old == doctor_slots[d][i]
                      new == doctor_slots'[d][i]
                  IN  /\ new.patients = old.patients
                      /\ new.current_capacity = old.current_capacity
                      /\ new.buffer_time = old.buffer_time
                      /\ new.start_time = old.start_time
                      /\ new.doctor_id = old.doctor_id
                      /\ IF Absorbs(doctor_slots[d], i)
                         THEN /\ new.end_time = doctor_slots[d][i + 1].end_time
                              /\ new.max_capacity =
                                   (IF old.max_capacity + 1 < 3 THEN old.max_capacity + 1 ELSE 3)
                         ELSE /\ new.end_time = old.end_time
                              /\ new.max_capacity = old.max_capacity]_vars

\* an optimisation has extended a booked slot and raised its capacity to the
\* cap, beside a full slot left as it was
C32_Witness ==
  /\ last.op = "optimize_schedule"
  /\ \E i \in 1..Len(doctor_slots["D1"]) :
       /\ doctor_slots["D1"][i].max_capacity = 3
       /\ doctor_slots["D1"][i].current_capacity > 0
       /\ doctor_slots["D1"][i].max_capacity > doctor_slots["D1"][i].current_capacity
       /\ doctor_slots["D1"][i].end_time > doctor_slots["D1"][i].start_time + 45
  /\ \E i \in 1..Len(doctor_slots["D1"]) :
       doctor_slots["D1"][i].current_capacity = doctor_slots["D1"][i].max_capacity

-----------------------------------------------------------------------------
(* Claims about failed reschedules and cancellations, under SpecSlots *)

\* C33: if reschedule_appointment(p, new_slot, b) returns false because new_slot
\* is full, p's previous booking is intact: p is still in the patients of the
\* slot it was tracked in, that slot's occupancy is the same, and the tracking
\* entry still names it.
C33_FailedRescheduleKeepsBooking ==
  [][\A p \in Patients, r \in AllRefs(doctor_slots), b \in BufferChoices :
       (/\ slot_assignments[p] # NoSlot
        /\ InSeq(p, SlotAt(doctor_slots, slot_assignments[p]).patients)
        /\ SlotAt(doctor_slots, r).current_capacity >= SlotAt(doctor_slots, r).max_capacity
        /\ SOReschedule(p, r, b)
        /\ ~last'.ret)
       => LET old == slot_assignments[p]
          IN  /\ slot_assignments'[p] = old
              /\ SlotAt(doctor_slots', old).patients = SlotAt(doctor_slots, old).patients
              /\ SlotAt(doctor_slots', old).current_capacity
                   = SlotAt(doctor_slots, old).current_capacity]_vars

\* C34: after cancel_appointment(p) returns true, p appears in no slot's
\* patients list, whatever calls preceded it.
C34_CancelledPatientGone ==
  (last.op = "cancel_appointment" /\ last.ret)
  => \A r \in AllRefs(doctor_slots) : ~InSeq(last.patient, SlotAt(doctor_slots, r).patients)

-----------------------------------------------------------------------------
(* Claims about the record and the writes of one call, under SpecPostStep *)

\* the slots whose occupancy a step changes
Touched == {r \in AllRefs(doctor_slots) :
              \/ SlotAt(doctor_slots', r).current_capacity
                   # SlotAt(doctor_slots, r).current_capacity
              \/ SlotAt(doctor_slots', r).patients # SlotAt(doctor_slots, r).patients}

BookedExactlyOne(result) ==
  /\ "doctor_id" \in DOMAIN result
  /\ \E r \in AllRefs(doctor_slots) :
       LET old == SlotAt(doctor_slots, r)
           new == SlotAt(doctor_slots', r)
       IN  /\ Touched = {r}
           /\ new.current_capacity = old.current_capacity + 1
           /\ new.patients = Append(old.patients, result.patient_id)
           /\ result.doctor_id = r[1]
           /\ result.start_time = old.start_time

\* C35: the record of a schedule_appointment call has success=true exactly when
\* the call added the patient to exactly one slot (that slot's current_capacity
\* rose by one and the record names the slot); when success=false the call
\* changed no slot's occupancy and no waitlist entry.
C35_SuccessMeansBooked ==
  [][last'.op = "AIAppointmentScheduler.schedule_appointment"
     => IF last'.result.success
        THEN BookedExactlyOne(last'.result)
        ELSE /\ Touched = {}
             /\ UNCHANGED <<waitlist, patient_records, contact_schedule>>]_vars

\* C36: in every record of a schedule_appointment call that is not an error
\* record, risk_level is the tier assess_risk assigns to the
\* no_show_probability of the same record.
C36_RecordTierMatchesProbability ==
  (last.op = "AIAppointmentScheduler.schedule_appointment" /\ last.result.action # "error")
  => last.result.risk_level = assess_risk(thresholds, last.result.no_show_probability)

-----------------------------------------------------------------------------
(* Claims about the slots' time ranges *)

Overlap(a, b) == a.start_time < b.end_time /\ b.start_time < a.end_time

\* C37: each doctor's schedule being registered once, no two distinct slots of
\* the same doctor overlap in time in any reachable state, also after
\* optimize_schedule has run.
C37_NoOverlap ==
  \A d \in Doctors : \A i, j \in 1..Len(doctor_slots[d]) :
    i # j => ~Overlap(doctor_slots[d][i], doctor_slots[d][j])

\* C38: every slot created by add_doctor_schedule lies inside the working-hours
\* window of its day: it starts at or after start_hour and ends at or before
\* end_hour, also for a slot_duration that does not divide the window.
C38_SlotsInsideWindow ==
  [][last'.op = "add_doctor_schedule"
     => LET d == last'.doctor
            added == Added(doctor_slots[d], doctor_slots'[d])
        IN  \A i \in 1..Len(added) :
              /\ added[i].start_time
                   >= AtHour(added[i].start_time, last'.working_hours[1])
              /\ added[i].end_time
                   <= AtHour(added[i].start_time, last'.working_hours[2])]_vars

-----------------------------------------------------------------------------
(* Claims about the waitlist's three structures, under SpecQueue *)

QueueIds == {waitlist[i].patient_id : i \in 1..Len(waitlist)}

\* C39: in every state reachable by add_patient, remove_patient,
\* update_patient_priority, record_contact_attempt, get_top_patients,
\* find_optimal_patient_for_slot and process_waitlist_fill, the ids in the
\* priority queue, the keys of patient_records and the keys of the contact
\* schedule are the same set, and each id occurs at most once in the queue.
C39_WaitlistStructuresAgree ==
  /\ QueueIds = patient_records
  /\ QueueIds = {p \in DOMAIN contact_schedule : contact_schedule[p] # NoTime}
  /\ \A i, j \in 1..Len(waitlist) : waitlist[i].patient_id = waitlist[j].patient_id => i = j

\* a fill pass has booked a waiting patient and removed it, while a patient that
\* was contacted is still waiting
C39_Witness ==
  /\ last.op = "process_waitlist_fill"
  /\ last.filled_slots > 0
  /\ \E i \in 1..Len(waitlist) : waitlist[i].contact_attempts > 0
  /\ \E p \in WaitlistPatients : p \notin patient_records /\ slot_assignments[p] # NoSlot

-----------------------------------------------------------------------------
(* Claims about the risk tier of waiting patients, under SpecTier *)

\* the tier the scheduler's RiskAssessor assigns: 1 LOW, 2 MEDIUM, 3 HIGH
SchedulerTier(prob) == Rank(assess_risk(thresholds, prob))

TierPriority(tier, urgency, waiting_days) ==
  LET tenths == 2 * (2 * tier - 1) * urgency + 5 * Min(waiting_days, 7) + 10 * (tier - 1)
  IN  IF tenths \div 10 < 1 THEN 1 ELSE IF tenths \div 10 > 10 THEN 10 ELSE tenths \div 10

TierDelay(tier) == IF tier = 3 THEN 1 ELSE IF tier = 2 THEN 3 ELSE 7

TierMatchScore(e, slot) ==
  2 * e.priority_score
  + (IF e.preferred_date = NoTime THEN 0
     ELSE Max(0, 10 - DayDistance(slot.start_time, e.preferred_date)))
  + (IF HourOf(slot.start_time) \in 9..20 THEN 3 ELSE 0)
  + (IF SchedulerTier(e.no_show_probability) = 3 THEN 5
     ELSE IF SchedulerTier(e.no_show_probability) = 2 THEN 3 ELSE 0)

\* C40: for every threshold configuration the scheduler is constructed with, the
\* tier the waitlist uses for a probability is the tier the scheduler's
\* assess_risk assigns to it: in each entry's priority score, in the delay to
\* the next contact after a successful attempt, and in the risk bonus of the
\* match score by which find_optimal_patient_for_slot picks a patient.
C40_WaitlistTierIsSchedulerTier ==
  /\ [](\A i \in 1..Len(waitlist) :
          waitlist[i].priority_score
            = TierPriority(SchedulerTier(waitlist[i].no_show_probability),
                           waitlist[i].urgency_score, waitlist[i].waiting_days))
  /\ [][/\ (last'.op = "record_contact_attempt" /\ last'.ret /\ last'.success)
           => contact_schedule'[last'.patient]
                = now + MinutesPerDay
                        * TierDelay(SchedulerTier(EntryOf(waitlist, last'.patient).no_show_probability))
        /\ (last'.op = "find_optimal_patient_for_slot" /\ last'.found # None)
           => \E i \in 1..Len(waitlist') :
                /\ waitlist'[i].patient_id = last'.found
                /\ \A j \in 1..Len(waitlist') :
                     TierMatchScore(waitlist'[j], last'.slot)
                       <= TierMatchScore(waitlist'[i], last'.slot)]_vars

====
